---- MODULE Spec2Model ----
(***************************************************************************)
(* Model of the signal-aggregation and trade-grading engine of the         *)
(* XAU/USD trading bot: the weighted-vote aggregator with macro gate       *)
(* (utils/helpers.py), the outcome verifier (core/verification.py), the    *)
(* council and level ledgers (grading/council.py, grading/levels.py), the  *)
(* store (storage/database.py) and the two callers that grade trades: the  *)
(* monitoring loop (core/auto_tester.py) and the /grade command            *)
(* (telegram_bot/bot.py); the macro verdict and its cache                  *)
(* (signals/macro.py); signal generation by /signal and by the monitoring  *)
(* loop, with /pause, /resume and the loop's safety brakes.                *)
(*                                                                         *)
(* Units.  Scores and weights are in hundredths (1.0 = 100), reward        *)
(* multiples in tenths (2.0R = 20), money in cents, time in minutes.       *)
(***************************************************************************)
EXTENDS Integers, Sequences, FiniteSets, TLC

VARIABLES
    aggIn,      \* arguments of aggregate_verdicts_with_macro
    aggOut,     \* its return value (and the locals the claims speak of)
    verIn,      \* arguments, clock and bar source of verify_trade_realtime
    verOut,     \* its return value
    planIn,     \* arguments of create_trade_plan, and RISK_MODE
    planOut,    \* its return value
    gradeIn,    \* arguments of the last grade_council call, and their number
    levelIn,    \* arguments of the last update_level call, and their number
    macroCache, \* signals/macro.py: _macro_cache and _cache_timestamp
    macroIn,    \* clock and fetch outcome of the last get_macro_verdict call
    macroOut,   \* its return value, and whether it called data_fetcher
    paused,     \* bot_control.paused
    mon,        \* the monitoring loop's globals (core/auto_tester.py)
    now,        \* wall clock, minutes
    feed,       \* the bar source: 1-minute bars, oldest first
    signals,    \* table signals
    trades,     \* table trades
    council,    \* table council
    levels,     \* table levels (append-only history)
    risk_mode,  \* config RISK_MODE, fixed at start-up
    last,       \* the handler that ran last, and what it met
    gradeCalls, \* per trade: calls of grade_council made for it
    levelCalls, \* per trade: calls of update_level made for it
    gradeProc,  \* a /grade command under way: its position and locals
    loopProc    \* a check_pending_trades pass under way: position and locals

aggVars == <<aggIn, aggOut>>
verVars == <<verIn, verOut>>
planVars == <<planIn, planOut>>
callVars == <<gradeIn, levelIn>>
macroVars == <<macroCache, macroIn, macroOut>>
ctlVars == <<paused, mon>>
procVars == <<gradeProc, loopProc>>
sysVars == <<now, feed, signals, trades, council, levels, risk_mode, last, gradeCalls, levelCalls>>
vars == <<aggIn, aggOut, verIn, verOut, planIn, planOut, gradeIn, levelIn, macroCache,
          macroIn, macroOut, paused, mon, now, feed, signals, trades, council,
          levels, risk_mode, last, gradeCalls, levelCalls, gradeProc, loopProc>>

Verdicts == {"BUY", "SELL", "NEUTRAL"}
Directions == {"BUY", "SELL"}

(***************************************************************************)
(* Arithmetic helpers                                                      *)
(***************************************************************************)
RECURSIVE SumOver(_, _)
\* sum of f[x] over the finite set S
SumOver(S, f) ==
    IF S = {} THEN 0
    ELSE LET x == CHOOSE y \in S : TRUE
         IN  f[x] + SumOver(S \ {x}, f)

\* Python round(): nearest integer multiple, ties to even; num/den, den > 0
RoundHalfEven(num, den) ==
    LET q == num \div den
        r == num % den
    IN  IF 2 * r < den THEN q
        ELSE IF 2 * r > den THEN q + 1
        ELSE IF q % 2 = 0 THEN q ELSE q + 1

Min(a, b) == IF a <= b THEN a ELSE b
Max(a, b) == IF a >= b THEN a ELSE b
Abs(x) == IF x < 0 THEN -x ELSE x

RECURSIVE Pow(_, _)
Pow(b, e) == IF e <= 0 THEN 1 ELSE b * Pow(b, e - 1)

(***************************************************************************)
(* Configuration (config/config.example.py)                                *)
(***************************************************************************)
WEIGHTS ==
    [trend |-> 100, candlestick |-> 100, sr |-> 100, volume |-> 100,
     rsi |-> 50, macd |-> 50, bollinger |-> 50]

BUY_SELL_THRESHOLDS == [buy |-> 200, sell |-> -200]

CONFIDENCE ==
    [base |-> 50, full_weight |-> 10, half_weight |-> 5,
     macro_align |-> 10, macro_contra |-> -10, cap |-> 90]

\* WEIGHTS.get(module, 0.5): the weight of a module WEIGHTS does not name
DefaultWeight == 50

\* max(confidence, 30)
ConfidenceFloor == 30

\* the module names the aggregator is exercised with: the seven voting
\* modules of WEIGHTS and one name WEIGHTS does not hold
UnknownModule == "news"
Modules == DOMAIN WEIGHTS \cup {UnknownModule}

(***************************************************************************)
(* Verdict aggregator (utils/helpers.py)                                   *)
(***************************************************************************)
score_map(verdict) ==
    CASE verdict = "BUY" -> 1
      [] verdict = "SELL" -> -1
      [] verdict = "NEUTRAL" -> 0

\* variant of weight_of that weighs every module 1.0 (C9 fails against it)
weight_of_flat(module) == 100

weight_of(module) ==
    IF module \in DOMAIN WEIGHTS THEN WEIGHTS[module] ELSE DefaultWeight

total_score(verdicts) ==
    SumOver(DOMAIN verdicts,
            [m \in DOMAIN verdicts |-> score_map(verdicts[m]) * weight_of(m)])

buy_modules(verdicts) == {m \in DOMAIN verdicts : verdicts[m] = "BUY"}
sell_modules(verdicts) == {m \in DOMAIN verdicts : verdicts[m] = "SELL"}

technical_verdict(score) ==
    IF score >= BUY_SELL_THRESHOLDS.buy THEN "BUY"
    ELSE IF score <= BUY_SELL_THRESHOLDS.sell THEN "SELL"
    ELSE "NEUTRAL"

\* variant of the macro gate that vetoes only a technical BUY (C8 fails
\* against it)
macro_gate_buy_only(technical, macro_verdict) ==
    IF technical = "BUY" /\ macro_verdict = "SELL" THEN <<"NEUTRAL", TRUE>>
    ELSE <<technical, FALSE>>

\* variant without the macro gate (C37 fails against it)
macro_gate_open(technical, macro_verdict) == <<technical, FALSE>>

\* variant of the macro gate that vetoes only a technical SELL (C36 fails
\* against it)
macro_gate_sell_only(technical, macro_verdict) ==
    IF technical = "SELL" /\ macro_verdict = "BUY" THEN <<"NEUTRAL", TRUE>>
    ELSE <<technical, FALSE>>

\* the macro gate: <<final_verdict, macro_adjusted>>
macro_gate(technical, macro_verdict) ==
    IF technical = "BUY" /\ macro_verdict = "SELL" THEN <<"NEUTRAL", TRUE>>
    ELSE IF technical = "SELL" /\ macro_verdict = "BUY" THEN <<"NEUTRAL", TRUE>>
    ELSE <<technical, FALSE>>

aligned_count(verdicts, technical) ==
    IF technical = "BUY" THEN Cardinality(buy_modules(verdicts))
    ELSE Cardinality(sell_modules(verdicts))

\* the macro confidence adjustment added to the confidence
macro_adjustment(final_verdict, macro_verdict) ==
    IF final_verdict # "NEUTRAL"
    THEN IF macro_verdict = final_verdict THEN CONFIDENCE.macro_align
         ELSE IF macro_verdict # "NEUTRAL" THEN CONFIDENCE.macro_contra
         ELSE 0
    ELSE 0

\* variant of the clamp without the cap (C11 fails against it)
clamp_confidence_uncapped(confidence) == Max(confidence, ConfidenceFloor)

clamp_confidence(confidence) ==
    Max(Min(confidence, CONFIDENCE.cap), ConfidenceFloor)

\* round(total_score, 1), on hundredths
round_score(score) == RoundHalfEven(score, 10) * 10

\* The returned tuple (final_verdict, score, confidence, macro_adjusted),
\* with the locals technical_verdict, total_score and the confidence before
\* the clamp.
aggregate_verdicts_with_macro(verdicts, macro_verdict) ==
    LET total     == total_score(verdicts)
        technical == technical_verdict(total)
        gate      == macro_gate(technical, macro_verdict)
        final     == gate[1]
        unclamped == CONFIDENCE.base
                     + aligned_count(verdicts, technical) * CONFIDENCE.half_weight
                     + macro_adjustment(final, macro_verdict)
    IN  [final_verdict     |-> final,
         score             |-> round_score(total),
         confidence        |-> clamp_confidence(unclamped),
         macro_adjusted    |-> gate[2],
         technical_verdict |-> technical,
         total_score       |-> total,
         unclamped         |-> unclamped]

NoAggregation ==
    [final_verdict |-> "NONE", score |-> 0, confidence |-> 0,
     macro_adjusted |-> FALSE, technical_verdict |-> "NONE",
     total_score |-> 0, unclamped |-> 0]

IdleAggIn == [verdicts |-> <<>>, macro_verdict |-> "NEUTRAL"]

(***************************************************************************)
(* Outcome verifier (core/verification.py)                                 *)
(***************************************************************************)
VERIFICATION_WINDOW_BARS == 120

\* Python None / SQL NULL in a numeric place (exit_price, bars_to_hit, pnl)
None == -1000000

\* The bar source's answer to get_ohlc_data: a frame of bars, None, or an
\* exception.
FetchOk(bars) == [status |-> "ok", bars |-> bars]
FetchNone == [status |-> "none", bars |-> <<>>]
FetchRaise == [status |-> "raise", bars |-> <<>>, error |-> "fetch failed"]

\* variant of the filter that keeps the bar stamped at the entry minute (C3
\* fails against it)
bars_from_entry(df, entry_time) ==
    SelectSeq(df, LAMBDA b : b.t >= entry_time)

\* df[df.index > entry_time_utc]
bars_after_entry(df, entry_time) ==
    SelectSeq(df, LAMBDA b : b.t > entry_time)

\* BUY: candle['Low'] <= sl_price;  SELL: candle['High'] >= sl_price
sl_hit(candle, direction, sl_price) ==
    IF direction = "BUY" THEN candle.Low <= sl_price
    ELSE candle.High >= sl_price

\* BUY: candle['High'] >= tp_price;  SELL: candle['Low'] <= tp_price
tp_hit(candle, direction, tp_price) ==
    IF direction = "BUY" THEN candle.High >= tp_price
    ELSE candle.Low <= tp_price

RECURSIVE check_candles_tp_first(_, _, _, _, _)
\* variant of the loop that checks the target before the stop (C2 fails
\* against it)
check_candles_tp_first(df_after_entry, i, direction, sl_price, tp_price) ==
    IF i > Len(df_after_entry)
    THEN [result |-> "PENDING", exit_price |-> None,
          bars |-> Len(df_after_entry), rr |-> 0]
    ELSE LET candle == df_after_entry[i]
         IN  IF tp_hit(candle, direction, tp_price)
             THEN [result |-> "WIN", exit_price |-> tp_price, bars |-> i, rr |-> 20]
             ELSE IF sl_hit(candle, direction, sl_price)
             THEN [result |-> "LOSS", exit_price |-> sl_price, bars |-> i, rr |-> -10]
             ELSE check_candles_tp_first(df_after_entry, i + 1, direction,
                                         sl_price, tp_price)

RECURSIVE check_candles(_, _, _, _, _)
\* Step 6 and 7: the loop over df_after_entry from candle i on
check_candles(df_after_entry, i, direction, sl_price, tp_price) ==
    IF i > Len(df_after_entry)
    THEN [result |-> "PENDING", exit_price |-> None,
          bars |-> Len(df_after_entry), rr |-> 0]
    ELSE LET candle == df_after_entry[i]
             bars_elapsed == i
         IN  IF sl_hit(candle, direction, sl_price)
             THEN \* SL checked first; the same answer when TP is hit too
                  [result |-> "LOSS", exit_price |-> sl_price,
                   bars |-> bars_elapsed, rr |-> -10]
             ELSE IF tp_hit(candle, direction, tp_price)
             THEN [result |-> "WIN", exit_price |-> tp_price,
                   bars |-> bars_elapsed, rr |-> 20]
             ELSE check_candles(df_after_entry, i + 1, direction, sl_price, tp_price)

\* variant of the expiry test that expires a plan exactly one window old (C4
\* fails against it)
is_expired_at_window(clock, entry_time) ==
    clock - entry_time >= VERIFICATION_WINDOW_BARS

\* variant of the expiry test that never expires a plan (C39 fails against
\* it)
is_expired_never(clock, entry_time) == FALSE

\* Step 2: time_since_entry > VERIFICATION_WINDOW_BARS
is_expired(clock, entry_time) ==
    clock - entry_time > VERIFICATION_WINDOW_BARS

\* variant of the handler that reports a fault as PENDING (C17 fails against
\* it)
error_result_as_pending(message) ==
    [result |-> "PENDING", exit_price |-> None, bars |-> 0, rr |-> 0]

\* except Exception as e: the ERROR answer, carrying str(e)
error_result(message) ==
    [result |-> "ERROR", exit_price |-> None, bars |-> 0, rr |-> 0,
     error |-> message]

\* verify_trade_realtime, with the clock (datetime.now) and the answer of
\* get_ohlc_data made arguments
verify_trade_realtime(entry_time, direction, entry_price, sl_price, tp_price, clock, fetched) ==
    IF is_expired(clock, entry_time)
    THEN [result |-> "EXPIRED", exit_price |-> None,
          bars |-> VERIFICATION_WINDOW_BARS, rr |-> 0]
    ELSE IF fetched.status = "raise"
    THEN error_result(fetched.error)
    ELSE IF fetched.status = "none" \/ fetched.bars = <<>>
    THEN [result |-> "PENDING", exit_price |-> None, bars |-> 0, rr |-> 0]
    ELSE LET df_after_entry == bars_after_entry(fetched.bars, entry_time)
         IN  IF df_after_entry = <<>>
             THEN [result |-> "PENDING", exit_price |-> None,
                   bars |-> 0, rr |-> 0]
             ELSE check_candles(df_after_entry, 1, direction, sl_price, tp_price)

NoOutcome == [result |-> "NONE", exit_price |-> None, bars |-> 0, rr |-> 0]

(***************************************************************************)
(* Inputs the pure functions are exercised with                            *)
(***************************************************************************)
\* price levels of a plan, in price units: entry between stop and target
PlanLevels ==
    [BUY  |-> [entry |-> 2, sl |-> 1, tp |-> 3],
     SELL |-> [entry |-> 2, sl |-> 3, tp |-> 1]]

\* a bar's range holds the entry price and reaches, touches exactly, or
\* passes each level
BarShapes == {<<l, h>> : l \in 0..2, h \in 2..4}

\* entry time of the verified trade; bars are stamped 1..MaxBarTime, so the
\* bar stamped EntryTime is not strictly after the entry
EntryTime == 1
MaxBarTime == 4

RECURSIVE FrameOf(_, _)
\* the frame (oldest first) of the bars stamped from t on, shape[t] = <<>>
\* meaning no bar was stamped t
FrameOf(shape, t) ==
    IF t > MaxBarTime THEN <<>>
    ELSE IF shape[t] = <<>> THEN FrameOf(shape, t + 1)
    ELSE <<[t |-> t, Low |-> shape[t][1], High |-> shape[t][2]]>>
         \o FrameOf(shape, t + 1)

Frames == {FrameOf(shape, 1) : shape \in [1..MaxBarTime -> BarShapes \cup {<<>>}]}

\* the clock: inside the window, at its last minute, one minute past it
Clocks == {MaxBarTime, EntryTime + VERIFICATION_WINDOW_BARS,
           EntryTime + VERIFICATION_WINDOW_BARS + 1}

\* the reward multiple stored with the verified plan, in tenths: RR_TARGET is
\* a setting of the configuration, 2.0 as shipped; 3.0 is another setting
PlanRewards == {20, 30}

IdleVerIn ==
    [entry_time |-> 0, direction |-> "BUY", entry_price |-> 0, sl_price |-> 0,
     tp_price |-> 0, rr |-> 0, clock |-> 0, fetched |-> FetchNone]

(***************************************************************************)
(* Trade planner (core/trade_plan.py), on integers: prices and distances   *)
(* in pips (PIP_SIZE = 0.01 price units), lots in lot steps                *)
(* (BROKER_LOT_STEP = 0.01), money in cents (PIP_VALUE_PER_LOT = 1.00)     *)
(***************************************************************************)
RISK ==
    [risk_per_trade_pct |-> 1,      \* RISK_PER_TRADE = 0.01
     strict_pct         |-> 20,     \* 0.20 * balance in LEVEL_STRICT
     rr_target          |-> 20,     \* RR_TARGET = 2.0, in tenths
     atr_multiplier_x2  |-> 3,      \* ATR_MULTIPLIER = 1.5
     spread             |-> 5,      \* ASSUMED_SPREAD = 0.05
     min_lot            |-> 1,      \* BROKER_MIN_LOT = 0.01
     max_lot            |-> 5000]   \* BROKER_MAX_LOT = 50.0

\* ATR_PERIOD, the rolling window of calculate_atr
ATR_PERIOD == 14

\* A bar window df is [rows, Close, tr_sum]: its number of bars, its last
\* close in pips, and the sum in pips of the true ranges of its last
\* ATR_PERIOD bars (read only when it has that many).
\* calculate_atr: None for no rows, NaN (the rolling mean is undefined) for
\* fewer rows than the period, else the mean tr_sum / period as a fraction.
calculate_atr(df, period) ==
    IF df.rows = 0 THEN [kind |-> "None", num |-> 0, den |-> 1]
    ELSE IF df.rows < period THEN [kind |-> "NaN", num |-> 0, den |-> 1]
    ELSE [kind |-> "number", num |-> df.tr_sum, den |-> period]

\* variant of calculate_lot_size without the clamp to the broker limits (C15
\* fails against it)
calculate_lot_size_unclamped(risk_pct, balance, stop_pips) ==
    IF stop_pips <= 0 THEN RISK.min_lot
    ELSE RoundHalfEven(risk_pct * balance, 100 * stop_pips)

\* variant of calculate_lot_size that rounds the quotient up to the next lot
\* step and adds one (C35 fails against it)
calculate_lot_size_oversized(risk_pct, balance, stop_pips) ==
    IF stop_pips <= 0 THEN RISK.min_lot
    ELSE LET lots == (risk_pct * balance) \div (100 * stop_pips) + 2
         IN  Max(RISK.min_lot, Min(lots, RISK.max_lot))

\* calculate_lot_size; risk_pct of balance cents is the unrounded risk
\* amount, the result is in lot steps
calculate_lot_size(risk_pct, balance, stop_pips) ==
    IF stop_pips <= 0 THEN RISK.min_lot
    ELSE LET lots == RoundHalfEven(risk_pct * balance, 100 * stop_pips)
         IN  Max(RISK.min_lot, Min(lots, RISK.max_lot))

\* create_trade_plan returned None
NoPlan == [direction |-> "NONE"]

\* create_trade_plan raised: round() of a NaN is a ValueError
PlanRaised == [direction |-> "RAISED"]

\* create_trade_plan; entry_price is round(df['Close'].iloc[-1], 2).  A NaN
\* ATR is neither None nor <= 0 (every comparison with NaN is false), so it
\* reaches round(stop_distance / PIP_SIZE).
create_trade_plan(df, direction, balance, mode) ==
    IF df.rows = 0 THEN NoPlan
    ELSE LET atr == calculate_atr(df, ATR_PERIOD)
         IN  IF atr.kind = "None" THEN NoPlan
             ELSE IF atr.kind = "NaN" THEN PlanRaised
             ELSE IF atr.num <= 0 THEN NoPlan
             ELSE
             LET entry_price == df.Close
                 stop_pips == RoundHalfEven(RISK.atr_multiplier_x2 * atr.num,
                                            2 * atr.den)
                 tp_pips   == RoundHalfEven(RISK.rr_target * stop_pips, 10)
                 sl_price  == IF direction = "BUY"
                              THEN entry_price - stop_pips - RISK.spread
                              ELSE entry_price + stop_pips + RISK.spread
                 tp_price  == IF direction = "BUY"
                              THEN entry_price + tp_pips
                              ELSE entry_price - tp_pips
                 risk_pct  == IF mode = "LEVEL_STRICT" THEN RISK.strict_pct
                              ELSE RISK.risk_per_trade_pct
                 lots      == calculate_lot_size(risk_pct, balance, stop_pips)
             IN  [direction      |-> direction,
                  entry          |-> entry_price,
                  sl             |-> sl_price,
                  tp             |-> tp_price,
                  lots           |-> lots,
                  stop_pips      |-> stop_pips,
                  tp_pips        |-> tp_pips,
                  rr             |-> RISK.rr_target,
                  risk_amount    |-> RoundHalfEven(risk_pct * balance, 100),
                  potential_loss |-> stop_pips * lots,
                  potential_gain |-> tp_pips * lots]

\* create_trade_plan not called yet
NotPlanned == [direction |-> "IDLE"]

IdlePlanIn ==
    [df |-> [rows |-> 0, Close |-> 0, tr_sum |-> 0], direction |-> "BUY",
     balance |-> 0, mode |-> "SAFER"]

PlanIdle == planIn = IdlePlanIn /\ planOut = NotPlanned

\* the bar windows the planner is exercised with: no bar, one bar short of
\* the ATR period, a full period; true ranges summing to 0..MaxTrSum pips
\* over the period (an ATR of 0 to MaxTrSum / ATR_PERIOD pips), and one
\* volatile window of twenty times that
MaxTrSum == 30
PlanRows == {0, ATR_PERIOD - 1, ATR_PERIOD}
TrSums == (0..MaxTrSum) \cup {20 * MaxTrSum}
PlanWindows ==
    {[rows |-> r, Close |-> 1000, tr_sum |-> s] : r \in PlanRows, s \in TrSums}

\* account balances, in cents: 0.01, 20.00 (INITIAL_BALANCE), 32.00 and 96.00
\* (sizes of half a lot step and a step and a half at a stop of 64 pips),
\* 1 000.00, 100 000.00
Balances == {1, 2000, 3200, 9600, 100000, 10000000}

(***************************************************************************)
(* Macro verdict with its cache (signals/macro.py); clocks in seconds      *)
(***************************************************************************)
SECONDS_PER_DAY == 86400

\* cache_seconds, the default of get_macro_verdict
CACHE_SECONDS == 60

\* what data_fetcher answers: a dict of the three signals, nothing, or an
\* exception
MacroData(dxy, yield, risk) ==
    [status |-> "ok", dxy_signal |-> dxy, yield_signal |-> yield,
     risk_signal |-> risk]
MacroNothing == [status |-> "none"]
MacroRaise == [status |-> "raise"]

\* "Determine verdict"
macro_score_verdict(macro_score) ==
    IF macro_score >= 1 THEN "BUY"
    ELSE IF macro_score <= -1 THEN "SELL"
    ELSE "NEUTRAL"

\* "Check cache": (now - _cache_timestamp).seconds is the seconds part of
\* the difference, the whole days left out
cache_fresh(cache, clock) ==
    cache.set /\ ((clock - cache.timestamp) % SECONDS_PER_DAY) < CACHE_SECONDS

\* variant of get_macro_verdict that caches the NEUTRAL of a failed fetch
\* (C28 fails against it)
get_macro_verdict_caching_failure(cache, clock, fetched) ==
    IF cache_fresh(cache, clock)
    THEN [verdict |-> cache.verdict, called |-> FALSE, cache |-> cache]
    ELSE LET verdict ==
                 IF fetched.status = "ok"
                 THEN macro_score_verdict(fetched.dxy_signal
                          + fetched.yield_signal + fetched.risk_signal)
                 ELSE "NEUTRAL"
         IN  [verdict |-> verdict, called |-> TRUE,
              cache |-> [set |-> TRUE, verdict |-> verdict, timestamp |-> clock]]

\* get_macro_verdict: the verdict returned, whether data_fetcher was called,
\* and the cache left behind
get_macro_verdict(cache, clock, fetched) ==
    IF cache_fresh(cache, clock)
    THEN [verdict |-> cache.verdict, called |-> FALSE, cache |-> cache]
    ELSE IF fetched.status # "ok"
    THEN [verdict |-> "NEUTRAL", called |-> TRUE, cache |-> cache]
    ELSE LET macro_score == fetched.dxy_signal + fetched.yield_signal
                            + fetched.risk_signal
             verdict == macro_score_verdict(macro_score)
         IN  [verdict |-> verdict, called |-> TRUE,
              cache |-> [set |-> TRUE, verdict |-> verdict, timestamp |-> clock]]

(***************************************************************************)
(* Store (storage/database.py)                                             *)
(***************************************************************************)
\* bounds of the system model
MaxTrades == 2
MaxSignals == 2
MaxBars == 1

\* result IS NULL
NullResult == "NULL"

TradeIds == 1..MaxTrades

\* log_signal: the row appended to signals (the columns the core reads back)
signal_row(verdicts, macro_verdict, agg) ==
    [verdicts |-> verdicts, macro_verdict |-> macro_verdict,
     final_verdict |-> agg.final_verdict, score |-> agg.score,
     confidence |-> agg.confidence, macro_adjusted |-> agg.macro_adjusted]

\* log_trade_plan: the row appended to trades; the outcome columns are NULL
trade_row(signal_id, clock, plan) ==
    [signal_id |-> signal_id, timestamp |-> clock, direction |-> plan.direction,
     entry |-> plan.entry, stop_loss |-> plan.sl, take_profit |-> plan.tp,
     lots |-> plan.lots, stop_pips |-> plan.stop_pips, tp_pips |-> plan.tp_pips,
     rr |-> plan.rr, risk_amount |-> plan.risk_amount,
     potential_gain |-> plan.potential_gain,
     result |-> NullResult, exit_price |-> None, bars_to_hit |-> None,
     pnl |-> None]

\* update_trade_result: UPDATE trades SET result, exit_price, bars_to_hit,
\* pnl WHERE id = trade_id
update_trade_result(tr, trade_id, result_data, pnl) ==
    [tr EXCEPT ![trade_id].result = result_data.result,
               ![trade_id].exit_price = result_data.exit_price,
               ![trade_id].bars_to_hit = result_data.bars,
               ![trade_id].pnl = pnl]

\* get_pending_trades: ids of the trades WHERE result IS NULL ORDER BY id
get_pending_trades(tr) ==
    SelectSeq([i \in 1..Len(tr) |-> i], LAMBDA i : tr[i].result = NullResult)

\* get_last_trade: id of the most recent trade, 0 when there is none
get_last_trade(tr) == Len(tr)

\* get_trade_by_id: the id when the row exists, 0 otherwise
get_trade_by_id(tr, trade_id) ==
    IF trade_id \in 1..Len(tr) THEN trade_id ELSE 0

\* get_signal_verdicts: the seven module verdicts and the macro verdict
get_signal_verdicts(sig) ==
    [m \in DOMAIN sig.verdicts \cup {"macro"} |->
        IF m = "macro" THEN sig.macro_verdict ELSE sig.verdicts[m]]

(***************************************************************************)
(* Council ledger (grading/council.py)                                     *)
(***************************************************************************)
\* init_council: the members table
Members == {"trend", "candlestick", "sr", "volume", "rsi", "macd", "bollinger", "macro"}

init_council ==
    [m \in Members |->
        [correct |-> 0, incorrect |-> 0, neutral |-> 0, total_r |-> 0,
         trade_count |-> 0, accuracy |-> 0, expectancy |-> 0]]

\* variant of the member update that books a LOSS as correct (C18 fails
\* against it)
grade_member_loss_as_correct(row, verdict, trade_direction, trade_result, rr_realized) ==
    IF verdict = "NEUTRAL"
    THEN [row EXCEPT !.neutral = @ + 1]
    ELSE IF verdict # trade_direction
    THEN row
    ELSE IF trade_result \in {"WIN", "LOSS"}
    THEN [row EXCEPT !.correct = @ + 1, !.total_r = @ + rr_realized,
                     !.trade_count = @ + 1]
    ELSE row

\* variant of the member update that books the opposite verdict as incorrect
\* (C19 fails against it)
grade_member_opposite_incorrect(row, verdict, trade_direction, trade_result, rr_realized) ==
    IF verdict = "NEUTRAL"
    THEN [row EXCEPT !.neutral = @ + 1]
    ELSE IF verdict # trade_direction
    THEN [row EXCEPT !.incorrect = @ + 1, !.trade_count = @ + 1]
    ELSE IF trade_result = "WIN"
    THEN [row EXCEPT !.correct = @ + 1, !.total_r = @ + rr_realized,
                     !.trade_count = @ + 1]
    ELSE IF trade_result = "LOSS"
    THEN [row EXCEPT !.incorrect = @ + 1, !.total_r = @ + rr_realized,
                     !.trade_count = @ + 1]
    ELSE row

\* variant of the member update whose LOSS branch leaves trade_count alone
\* (C38 fails against it)
grade_member_loss_uncounted(row, verdict, trade_direction, trade_result, rr_realized) ==
    IF verdict = "NEUTRAL"
    THEN [row EXCEPT !.neutral = @ + 1]
    ELSE IF verdict # trade_direction
    THEN row
    ELSE IF trade_result = "WIN"
    THEN [row EXCEPT !.correct = @ + 1, !.total_r = @ + rr_realized,
                     !.trade_count = @ + 1]
    ELSE IF trade_result = "LOSS"
    THEN [row EXCEPT !.incorrect = @ + 1, !.total_r = @ + rr_realized]
    ELSE row

\* the counters of one member after the loop over module_verdicts
grade_member(row, verdict, trade_direction, trade_result, rr_realized) ==
    IF verdict = "NEUTRAL"
    THEN [row EXCEPT !.neutral = @ + 1]
    ELSE IF verdict # trade_direction
    THEN row
    ELSE IF trade_result = "WIN"
    THEN [row EXCEPT !.correct = @ + 1, !.total_r = @ + rr_realized,
                     !.trade_count = @ + 1]
    ELSE IF trade_result = "LOSS"
    THEN [row EXCEPT !.incorrect = @ + 1, !.total_r = @ + rr_realized,
                     !.trade_count = @ + 1]
    ELSE row

\* the recalculation of accuracy (percent, in tenths) and expectancy (R, in
\* hundredths) from the raw counters
recalculate(row) ==
    LET total_graded == row.correct + row.incorrect
    IN  [row EXCEPT
           !.accuracy = IF total_graded > 0
                        THEN RoundHalfEven(row.correct * 1000, total_graded)
                        ELSE 0,
           !.expectancy = IF row.trade_count > 0
                          THEN RoundHalfEven(row.total_r * 10, row.trade_count)
                          ELSE 0]

grade_council(cn, module_verdicts, trade_direction, trade_result, rr_realized) ==
    [m \in DOMAIN cn |->
        recalculate(
            IF m \in DOMAIN module_verdicts
            THEN grade_member(cn[m], module_verdicts[m], trade_direction,
                              trade_result, rr_realized)
            ELSE cn[m])]

(***************************************************************************)
(* Level ledger (grading/levels.py)                                        *)
(***************************************************************************)
INITIAL_BALANCE == 2000

\* init_levels: the START row, level 1, target INITIAL_BALANCE * 1.2
init_levels(mode) ==
    <<[level |-> 1, balance |-> INITIAL_BALANCE,
       target |-> (INITIAL_BALANCE * 6) \div 5, result |-> "START",
       mode |-> mode]>>

\* variant of the import that inserts the START row whatever the table holds
\* (C26 fails against it)
import_levels_unchecked(lv, mode) == lv \o init_levels(mode)

\* init_levels as run at every import of grading/levels.py: the START row is
\* inserted when SELECT COUNT(*) is 0
import_levels(lv, mode) ==
    IF Len(lv) = 0 THEN lv \o init_levels(mode) ELSE lv

\* get_current_level: the row with the greatest id
get_current_level(lv) == lv[Len(lv)]

\* variant of the row computation whose STRICT branch books balance + pnl
\* instead of balance x 1.2 or balance / 1.2 (C22 fails against it)
level_row_strict_by_pnl(current, pnl, result, mode) ==
    LET new_balance == current.balance + pnl
    IN  [level   |-> IF mode = "LEVEL_STRICT"
                     THEN (IF result = "WIN" THEN current.level + 1
                           ELSE Max(1, current.level - 1))
                     ELSE (IF new_balance >= current.target
                           THEN current.level + 1
                           ELSE IF 6 * new_balance <= 5 * current.balance
                           THEN Max(1, current.level - 1)
                           ELSE current.level),
         balance |-> new_balance,
         target  |-> IF mode = "LEVEL_STRICT"
                        \/ new_balance >= current.target
                        \/ 6 * new_balance <= 5 * current.balance
                     THEN RoundHalfEven(new_balance * 6, 5)
                     ELSE current.target,
         result  |-> result, mode |-> mode]

\* variant of the row computation without max(1, .) on the way down (C24
\* fails against it)
level_row_unfloored(current, pnl, result, mode) ==
    LET new_balance == current.balance + pnl
    IN  IF mode = "LEVEL_STRICT"
        THEN [level   |-> IF result = "WIN" THEN current.level + 1
                          ELSE current.level - 1,
              balance |-> IF result = "WIN"
                          THEN RoundHalfEven(current.balance * 6, 5)
                          ELSE RoundHalfEven(current.balance * 5, 6),
              target  |-> IF result = "WIN"
                          THEN RoundHalfEven(current.balance * 36, 25)
                          ELSE current.balance,
              result  |-> result, mode |-> mode]
        ELSE [level   |-> IF new_balance >= current.target
                          THEN current.level + 1
                          ELSE IF 6 * new_balance <= 5 * current.balance
                          THEN current.level - 1
                          ELSE current.level,
              balance |-> new_balance,
              target  |-> IF new_balance >= current.target
                             \/ 6 * new_balance <= 5 * current.balance
                          THEN RoundHalfEven(new_balance * 6, 5)
                          ELSE current.target,
              result  |-> result, mode |-> mode]

\* update_level: the row appended.  x * 1.2 is 6x/5 and x / 1.2 is 5x/6;
\* balance and target are rounded to cents when stored.
level_row(current, pnl, result, mode) ==
    IF mode = "LEVEL_STRICT"
    THEN IF result = "WIN"
         THEN [level   |-> current.level + 1,
               balance |-> RoundHalfEven(current.balance * 6, 5),
               target  |-> RoundHalfEven(current.balance * 36, 25),
               result  |-> result, mode |-> mode]
         ELSE [level   |-> Max(1, current.level - 1),
               balance |-> RoundHalfEven(current.balance * 5, 6),
               target  |-> current.balance,
               result  |-> result, mode |-> mode]
    ELSE LET new_balance == current.balance + pnl
         IN  IF new_balance >= current.target
             THEN [level   |-> current.level + 1,
                   balance |-> new_balance,
                   target  |-> RoundHalfEven(new_balance * 6, 5),
                   result  |-> result, mode |-> mode]
             ELSE IF 6 * new_balance <= 5 * current.balance
             THEN [level   |-> Max(1, current.level - 1),
                   balance |-> new_balance,
                   target  |-> RoundHalfEven(new_balance * 6, 5),
                   result  |-> result, mode |-> mode]
             ELSE [level   |-> current.level,
                   balance |-> new_balance,
                   target  |-> current.target,
                   result  |-> result, mode |-> mode]

update_level(lv, pnl, result, mode) ==
    Append(lv, level_row(get_current_level(lv), pnl, result, mode))

\* signals/macro.py at import: _macro_cache = {} and _cache_timestamp = None
NoMacroCache == [set |-> FALSE, verdict |-> "NONE", timestamp |-> 0]

\* no get_macro_verdict call yet
NoMacroCall == [n |-> 0, clock |-> 0, fetched |-> [status |-> "none"]]
NoMacroVerdict == [verdict |-> "NONE", called |-> FALSE]

MacroIdle ==
    /\ macroCache = NoMacroCache
    /\ macroIn = NoMacroCall
    /\ macroOut = NoMacroVerdict

\* the monitoring loop's globals when the process starts
StartCounters ==
    [signal_count_today |-> 0, trade_count_today |-> 0, last_trade_date |-> None,
     consecutive_losses |-> 0]

\* init_db: bot_control.paused is 0; the monitoring loop has not run
ControlIdle == paused = FALSE /\ mon = StartCounters

\* no /grade command and no check_pending_trades pass under way
NoGradeProc == [pc |-> "idle", trade_id |-> 0, result_data |-> NoOutcome]
NoLoopProc == [pc |-> "idle", pending |-> <<>>, result_data |-> NoOutcome]

ProcIdle == gradeProc = NoGradeProc /\ loopProc = NoLoopProc

\* no update_level call yet
NoLevelCall == [n |-> 0, pnl |-> 0, result |-> "NONE"]

\* no grade_council call yet
NoGrading ==
    [n |-> 0, module_verdicts |-> <<>>, trade_direction |-> "NONE",
     trade_result |-> "NONE", rr_realized |-> 0]

(***************************************************************************)
(* Grading a verified trade: the monitoring loop's check_pending_trades    *)
(* (core/auto_tester.py) and the /grade command (telegram_bot/bot.py).     *)
(* Each of update_trade_result, grade_council and update_level commits on  *)
(* its own connection; a handler may stop (process killed) between them.   *)
(***************************************************************************)
FetchKinds == {"ok", "none", "raise"}

\* what get_ohlc_data answers when called
Fetched(kind, bars) ==
    IF kind = "ok" THEN FetchOk(bars)
    ELSE IF kind = "none" THEN FetchNone ELSE FetchRaise

\* where a handler stops: nowhere, or after the verification, after
\* update_trade_result, after grade_council
CrashSteps == {"before_update", "after_update", "after_council"}

\* no handler ran last
NoHandler ==
    [op |-> "none", trade |-> 0, results |-> [i \in TradeIds |-> "NONE"],
     crashed |-> FALSE]

\* the tables as a handler finds them, with what it has met so far
HandlerState ==
    [trades |-> trades, council |-> council, levels |-> levels,
     gradeCalls |-> gradeCalls, levelCalls |-> levelCalls,
     results |-> [i \in TradeIds |-> "NONE"], crashed |-> FALSE]

\* "Calculate PnL"
pnl_of(trade, result) ==
    IF result = "WIN" THEN trade.potential_gain
    ELSE IF result = "LOSS" THEN -trade.risk_amount
    ELSE 0

\* rr_realized = 2.0 on a WIN in check_pending_trades
MonitorWinR == 20

\* rr_realized; rr_win is 2.0 in check_pending_trades and the plan's rr in
\* /grade
rr_realized_of(result, rr_win) ==
    IF result = "WIN" THEN rr_win
    ELSE IF result = "LOSS" THEN -10
    ELSE 0

\* variant that sends EXPIRED to the ledgers too (C6 fails against it)
ledger_results_with_expired == {"WIN", "LOSS", "EXPIRED"}

\* the outcomes for which the callers grade the council and the level
ledger_results == {"WIN", "LOSS"}

\* The writes both callers make for a trade whose verification did not
\* answer PENDING: update_trade_result, then grade_council and update_level
\* when the result is WIN or LOSS; cut short at `crash`.
grade_trade(st, trade_id, result_data, rr_win, crash) ==
    LET trade    == st.trades[trade_id]
        result   == result_data.result
        pnl      == pnl_of(trade, result)
        rr       == rr_realized_of(result, rr_win)
        verdicts == get_signal_verdicts(signals[trade.signal_id])
        met      == [st EXCEPT !.results[trade_id] = result]
        s1       == [met EXCEPT
                        !.trades = update_trade_result(@, trade_id, result_data, pnl)]
        s2       == IF result \in ledger_results
                    THEN [s1 EXCEPT
                            !.council = grade_council(@, verdicts, trade.direction,
                                                      result, rr),
                            !.gradeCalls[trade_id] = @ + 1]
                    ELSE s1
        s3       == IF result \in ledger_results
                    THEN [s2 EXCEPT
                            !.levels = update_level(@, pnl, result, risk_mode),
                            !.levelCalls[trade_id] = @ + 1]
                    ELSE s2
    IN  CASE crash = "before_update" -> [met EXCEPT !.crashed = TRUE]
          [] crash = "after_update"  -> [s1 EXCEPT !.crashed = TRUE]
          [] crash = "after_council" -> [s2 EXCEPT !.crashed = TRUE]
          [] OTHER                   -> s3

\* verify_trade_realtime on a stored trade; the stored timestamp is the
\* minute log_trade_plan wrote, parsed back by strptime
verify_stored(trade, clock, fetched) ==
    verify_trade_realtime(trade.timestamp, trade.direction, trade.entry,
                          trade.stop_loss, trade.take_profit, clock, fetched)

RECURSIVE check_pending(_, _, _, _, _)
\* the loop of check_pending_trades over the pending list read at its start
check_pending(st, pending, clock, fetches, crashAt) ==
    IF pending = <<>> \/ st.crashed THEN st
    ELSE LET trade_id    == Head(pending)
             result_data == verify_stored(st.trades[trade_id], clock,
                                          fetches[trade_id])
             crash       == IF crashAt[1] = trade_id THEN crashAt[2] ELSE "none"
             next        == IF result_data.result = "PENDING"
                            THEN [st EXCEPT !.results[trade_id] = "PENDING"]
                            ELSE grade_trade(st, trade_id, result_data,
                                             MonitorWinR, crash)
         IN  check_pending(next, Tail(pending), clock, fetches, crashAt)

\* variant of /grade without the "already graded" answer (C1 fails against
\* it)
grade_command_regrading(st, trade_id, clock, fetched, crash) ==
    IF trade_id = 0 THEN st
    ELSE LET trade       == st.trades[trade_id]
             result_data == verify_stored(trade, clock, fetched)
         IN  IF result_data.result = "PENDING"
             THEN [st EXCEPT !.results[trade_id] = "PENDING"]
             ELSE grade_trade(st, trade_id, result_data, trade.rr, crash)

\* the /grade command on trade_id (0: no trade found)
grade_command(st, trade_id, clock, fetched, crash) ==
    IF trade_id = 0 THEN st
    ELSE IF st.trades[trade_id].result # NullResult
    THEN [st EXCEPT !.results[trade_id] = "ALREADY_GRADED"]
    ELSE LET trade       == st.trades[trade_id]
             result_data == verify_stored(trade, clock, fetched)
         IN  IF result_data.result = "PENDING"
             THEN [st EXCEPT !.results[trade_id] = "PENDING"]
             ELSE grade_trade(st, trade_id, result_data, trade.rr, crash)

(***************************************************************************)
(* Generating a signal: /signal (telegram_bot/bot.py) and the monitoring   *)
(* loop's generate_signal with its safety brakes (core/auto_tester.py)     *)
(***************************************************************************)
MINUTES_PER_DAY == 1440
MAX_TRADES_PER_DAY == 30
CONSECUTIVE_LOSS_COOLDOWN == 3

\* now.date(), as a day number
today(clock) == clock \div MINUTES_PER_DAY

reset_daily_counters(m, clock) ==
    IF m.last_trade_date # today(clock)
    THEN [signal_count_today |-> 0, trade_count_today |-> 0,
          last_trade_date |-> today(clock), consecutive_losses |-> 0]
    ELSE m

\* check_safety_limits: TRUE for (True, "OK")
check_safety_limits(m) ==
    IF m.trade_count_today >= MAX_TRADES_PER_DAY THEN FALSE
    ELSE IF m.consecutive_losses >= CONSECUTIVE_LOSS_COOLDOWN THEN FALSE
    ELSE TRUE

\* "if plan:" -- create_trade_plan returned a plan (not None, and it did not
\* raise)
is_plan(plan) == plan.direction \notin {NoPlan.direction, PlanRaised.direction}

\* variant of the common part that asks for a plan whatever the final
\* verdict is (C27 fails against it)
signal_and_plan_any_verdict(sg, tr, inp, df, balance, mode, clock) ==
    LET agg  == aggregate_verdicts_with_macro(inp.verdicts, inp.macro_verdict)
        plan == create_trade_plan(df, agg.final_verdict, balance, mode)
    IN  [signals |-> Append(sg, signal_row(inp.verdicts, inp.macro_verdict, agg)),
         trades  |-> IF is_plan(plan)
                     THEN Append(tr, trade_row(Len(sg) + 1, clock, plan))
                     ELSE tr,
         planned |-> is_plan(plan)]

\* the part /signal and generate_signal have in common: aggregate the
\* verdicts, log the signal, and for a final BUY or SELL create the trade
\* plan on the current balance and log it under the new signal's id
signal_and_plan(sg, tr, inp, df, balance, mode, clock) ==
    LET agg  == aggregate_verdicts_with_macro(inp.verdicts, inp.macro_verdict)
        plan == IF agg.final_verdict \in Directions
                THEN create_trade_plan(df, agg.final_verdict, balance, mode)
                ELSE NoPlan
    IN  [signals |-> Append(sg, signal_row(inp.verdicts, inp.macro_verdict, agg)),
         trades  |-> IF is_plan(plan)
                     THEN Append(tr, trade_row(Len(sg) + 1, clock, plan))
                     ELSE tr,
         planned |-> is_plan(plan)]

\* variant of /signal without the pause check (C29 fails against it)
signal_command_ignoring_pause(sg, tr, is_paused, inp, df, balance, mode, clock) ==
    signal_and_plan(sg, tr, inp, df, balance, mode, clock)

\* the /signal command
signal_command(sg, tr, is_paused, inp, df, balance, mode, clock) ==
    IF is_paused THEN [signals |-> sg, trades |-> tr, planned |-> FALSE]
    ELSE signal_and_plan(sg, tr, inp, df, balance, mode, clock)

\* generate_signal of the monitoring loop: the tables and the globals it
\* leaves behind
generate_signal(sg, tr, m, is_paused, inp, df, balance, mode, clock) ==
    IF is_paused
    THEN [signals |-> sg, trades |-> tr, mon |-> m]
    ELSE IF ~check_safety_limits(m)
    THEN [signals |-> sg, trades |-> tr, mon |-> m]
    ELSE LET done == signal_and_plan(sg, tr, inp, df, balance, mode, clock)
         IN  [signals |-> done.signals, trades |-> done.trades,
              mon |-> [m EXCEPT
                         !.signal_count_today = @ + 1,
                         !.trade_count_today =
                             IF done.planned THEN @ + 1 ELSE @]]

RECURSIVE consecutive_losses_after(_, _, _)
\* consecutive_losses after the loop of check_pending_trades met `results`
\* on the pending list: kept on PENDING, 0 on WIN, + 1 on LOSS, 0 otherwise
consecutive_losses_after(count, pending, results) ==
    IF pending = <<>> THEN count
    ELSE LET result == results[Head(pending)]
             next   == IF result = "PENDING" THEN count
                       ELSE IF result = "WIN" THEN 0
                       ELSE IF result = "LOSS" THEN count + 1
                       ELSE 0
         IN  consecutive_losses_after(next, Tail(pending), results)

(***************************************************************************)
(* Spec: the store and the handlers                                        *)
(***************************************************************************)
\* the minutes the clock is observed at: the start, the next minute, and
\* the two minutes at which a plan entered at 0 or 1 is a whole verification
\* window old
Instants ==
    {0, 1, VERIFICATION_WINDOW_BARS, VERIFICATION_WINDOW_BARS + 1}

\* the bar window a signal is generated on: last close 1000 pips and an ATR
\* of 20 pips over its last ATR_PERIOD bars
Market == [rows |-> ATR_PERIOD, Close |-> 1000, tr_sum |-> 20 * ATR_PERIOD]

\* the plans of this market put the stops at 965 (BUY) and 1035 (SELL) and
\* the targets at 1060 (BUY) and 940 (SELL); a bar of the feed stays at the
\* entry price, falls to 940 (BUY stop and SELL target) or rises to 1060
\* (BUY target and SELL stop)
SysBarShapes == {<<1000, 1000>>, <<940, 1000>>, <<1000, 1060>>}

\* what the modules and the macro module answer when a signal is generated
SignalInputs ==
    {[verdicts |-> [m \in DOMAIN WEIGHTS |-> "BUY"], macro_verdict |-> "NEUTRAL"],
     [verdicts |-> [trend |-> "SELL", candlestick |-> "SELL", sr |-> "SELL",
                    volume |-> "NEUTRAL", rsi |-> "BUY", macd |-> "SELL",
                    bollinger |-> "NEUTRAL"],
      macro_verdict |-> "SELL"],
     [verdicts |-> [m \in DOMAIN WEIGHTS |-> "BUY"], macro_verdict |-> "SELL"],
     [verdicts |-> [m \in DOMAIN WEIGHTS |-> "SELL"], macro_verdict |-> "BUY"]}

SysInit(mode) ==
    /\ now = 0
    /\ feed = <<>>
    /\ signals = <<>>
    /\ trades = <<>>
    /\ council = init_council
    /\ levels = init_levels(mode)
    /\ risk_mode = mode
    /\ last = NoHandler
    /\ gradeCalls = [i \in TradeIds |-> 0]
    /\ levelCalls = [i \in TradeIds |-> 0]

Init ==
    /\ SysInit("SAFER")
    /\ aggIn = IdleAggIn
    /\ aggOut = NoAggregation
    /\ verIn = IdleVerIn
    /\ verOut = NoOutcome
    /\ PlanIdle
    /\ gradeIn = NoGrading
    /\ levelIn = NoLevelCall
    /\ MacroIdle
    /\ ControlIdle
    /\ ProcIdle

\* the clock advances to a later instant
Tick ==
    \E t \in Instants :
        /\ t > now
        /\ now' = t
        /\ last' = NoHandler
        /\ UNCHANGED <<feed, signals, trades, council, levels, risk_mode,
                       gradeCalls, levelCalls, aggVars, verVars, planVars, callVars,
                       macroVars, ctlVars, procVars>>

\* the bar source closes the bar of the current minute
NewBar ==
    \E shape \in SysBarShapes :
        /\ Len(feed) < MaxBars
        /\ IF feed = <<>> THEN TRUE ELSE feed[Len(feed)].t < now
        /\ feed' = Append(feed, [t |-> now, Low |-> shape[1], High |-> shape[2]])
        /\ last' = NoHandler
        /\ UNCHANGED <<now, signals, trades, council, levels, risk_mode,
                       gradeCalls, levelCalls, aggVars, verVars, planVars, callVars,
                       macroVars, ctlVars, procVars>>

\* /signal (bot.py), and generate_signal (auto_tester.py) as far as the
\* tables go: aggregate, log the signal, and for a BUY or SELL create and log
\* the trade plan.  The bot is never paused in Spec and the brakes of the
\* monitoring loop, out of reach of MaxTrades trades, are left to SpecMonitor.
GenerateSignal ==
    \E inp \in SignalInputs, df \in {Market} :
        LET done == signal_command(signals, trades, paused, inp, df,
                                   get_current_level(levels).balance,
                                   risk_mode, now)
        IN  /\ Len(signals) < MaxSignals
            /\ Len(done.trades) <= MaxTrades
            /\ signals' = done.signals
            /\ trades' = done.trades
            /\ last' = NoHandler
            /\ UNCHANGED <<now, feed, council, levels, risk_mode, gradeCalls,
                           levelCalls, aggVars, verVars, planVars, callVars,
                           macroVars, ctlVars, procVars>>

\* the tables a handler leaves behind
Written(done, op, trade_id) ==
    /\ trades' = done.trades
    /\ council' = done.council
    /\ levels' = done.levels
    /\ gradeCalls' = done.gradeCalls
    /\ levelCalls' = done.levelCalls
    /\ last' = [op |-> op, trade |-> trade_id, results |-> done.results,
                crashed |-> done.crashed]
    /\ UNCHANGED <<now, feed, signals, risk_mode, aggVars, verVars, planVars, callVars,
                   macroVars, ctlVars, procVars>>

\* one pass of check_pending_trades
CheckPendingTrades ==
    LET pending == get_pending_trades(trades)
        ids     == {pending[k] : k \in 1..Len(pending)}
    IN  \E kinds \in [TradeIds -> FetchKinds],
           crashAt \in {<<0, "none">>} \cup (ids \X CrashSteps) :
            /\ \A i \in TradeIds \ ids : kinds[i] = "ok"
            /\ Written(check_pending(HandlerState, pending, now,
                                     [i \in TradeIds |-> Fetched(kinds[i], feed)],
                                     crashAt),
                       "check", 0)

\* the /grade command; arg 0 is the command without an argument.  The bar
\* source and the stopping point are inputs only of a run that verifies: one
\* that finds an ungraded trade.
Grade ==
    \E arg \in 0..MaxTrades, kind \in FetchKinds, crash \in CrashSteps \cup {"none"} :
        LET trade_id == IF arg # 0 THEN get_trade_by_id(trades, arg)
                        ELSE get_last_trade(trades)
            verifies == IF trade_id = 0 THEN FALSE
                        ELSE trades[trade_id].result = NullResult
        IN  /\ IF verifies THEN TRUE ELSE kind = "ok" /\ crash = "none"
            /\ Written(grade_command(HandlerState, trade_id, now,
                                      Fetched(kind, feed), crash),
                       "grade", trade_id)

Next ==
    \/ Tick
    \/ NewBar
    \/ GenerateSignal
    \/ CheckPendingTrades
    \/ Grade

Spec == Init /\ [][Next]_vars

(***************************************************************************)
(* SpecAgg: aggregate_verdicts_with_macro applied to every verdict map     *)
(* over any subset of Modules and every macro verdict                      *)
(***************************************************************************)
InitAgg ==
    /\ \E S \in SUBSET Modules :
         \E v \in [S -> Verdicts], macro \in Verdicts :
            aggIn = [verdicts |-> v, macro_verdict |-> macro]
    /\ aggOut = NoAggregation
    /\ verIn = IdleVerIn
    /\ verOut = NoOutcome
    /\ PlanIdle
    /\ gradeIn = NoGrading
    /\ levelIn = NoLevelCall
    /\ MacroIdle
    /\ ControlIdle
    /\ ProcIdle
    /\ SysInit("SAFER")

Aggregate ==
    /\ aggOut = NoAggregation
    /\ aggOut' = aggregate_verdicts_with_macro(aggIn.verdicts, aggIn.macro_verdict)
    /\ UNCHANGED <<aggIn, verVars, planVars, callVars, sysVars,
                   macroVars, ctlVars, procVars>>

NextAgg == Aggregate

SpecAgg == InitAgg /\ [][NextAgg]_vars

(***************************************************************************)
(* SpecVerify: verify_trade_realtime applied to every frame of bars        *)
(* stamped 1..MaxBarTime, both directions, each clock and fetch outcome    *)
(***************************************************************************)
InitVerify ==
    /\ \E d \in Directions, clock \in Clocks, rr \in PlanRewards,
          fetched \in {FetchNone, FetchRaise} \cup {FetchOk(f) : f \in Frames} :
            verIn = [entry_time |-> EntryTime, direction |-> d,
                     entry_price |-> PlanLevels[d].entry,
                     sl_price |-> PlanLevels[d].sl,
                     tp_price |-> PlanLevels[d].tp,
                     rr |-> rr, clock |-> clock, fetched |-> fetched]
    /\ verOut = NoOutcome
    /\ aggIn = IdleAggIn
    /\ aggOut = NoAggregation
    /\ PlanIdle
    /\ gradeIn = NoGrading
    /\ levelIn = NoLevelCall
    /\ MacroIdle
    /\ ControlIdle
    /\ ProcIdle
    /\ SysInit("SAFER")

Verify ==
    /\ verOut = NoOutcome
    /\ verOut' = verify_trade_realtime(verIn.entry_time, verIn.direction,
                     verIn.entry_price, verIn.sl_price, verIn.tp_price,
                     verIn.clock, verIn.fetched)
    /\ UNCHANGED <<verIn, aggVars, planVars, callVars, sysVars,
                   macroVars, ctlVars, procVars>>

NextVerify == Verify

SpecVerify == InitVerify /\ [][NextVerify]_vars

(***************************************************************************)
(* SpecPlan: create_trade_plan applied to every bar window of PlanWindows, *)
(* both directions, each balance and both risk modes                       *)
(***************************************************************************)
InitPlan ==
    /\ \E df \in PlanWindows, d \in Directions, balance \in Balances,
          mode \in {"SAFER", "LEVEL_STRICT"} :
            planIn = [df |-> df, direction |-> d, balance |-> balance,
                      mode |-> mode]
    /\ planOut = NotPlanned
    /\ aggIn = IdleAggIn
    /\ aggOut = NoAggregation
    /\ verIn = IdleVerIn
    /\ verOut = NoOutcome
    /\ gradeIn = NoGrading
    /\ levelIn = NoLevelCall
    /\ MacroIdle
    /\ ControlIdle
    /\ ProcIdle
    /\ SysInit("SAFER")

Plan ==
    /\ planOut = NotPlanned
    /\ planOut' = create_trade_plan(planIn.df, planIn.direction, planIn.balance,
                                    planIn.mode)
    /\ UNCHANGED <<planIn, callVars, aggVars, verVars, sysVars,
                   macroVars, ctlVars, procVars>>

NextPlan == Plan

SpecPlan == InitPlan /\ [][NextPlan]_vars

(***************************************************************************)
(* SpecCouncil: up to MaxGradings calls of grade_council on the council    *)
(* table, each with the verdicts of a signal, the direction and the WIN or *)
(* LOSS of its trade and the realized R the callers compute                *)
(***************************************************************************)
MaxGradings == 3

\* the verdicts get_signal_verdicts hands over: trend and rsi vote freely,
\* macro votes like rsi, the other members are NEUTRAL
CouncilVotes ==
    {[m \in Members |-> IF m = "trend" THEN a
                        ELSE IF m \in {"rsi", "macro"} THEN b
                        ELSE "NEUTRAL"] : a, b \in Verdicts}

InitCouncil ==
    /\ gradeIn = NoGrading
    /\ levelIn = NoLevelCall
    /\ MacroIdle
    /\ ControlIdle
    /\ ProcIdle
    /\ aggIn = IdleAggIn
    /\ aggOut = NoAggregation
    /\ verIn = IdleVerIn
    /\ verOut = NoOutcome
    /\ PlanIdle
    /\ SysInit("SAFER")

GradeCouncil ==
    \E votes \in CouncilVotes, d \in Directions, result \in ledger_results :
        LET rr == rr_realized_of(result, MonitorWinR)
        IN  /\ gradeIn.n < MaxGradings
            /\ council' = grade_council(council, votes, d, result, rr)
            /\ gradeIn' = [n |-> gradeIn.n + 1, module_verdicts |-> votes,
                           trade_direction |-> d, trade_result |-> result,
                           rr_realized |-> rr]
            /\ UNCHANGED <<now, feed, signals, trades, levels, risk_mode, last,
                           gradeCalls, levelCalls, levelIn, aggVars, verVars, planVars,
                           macroVars, ctlVars, procVars>>

NextCouncil == GradeCouncil

SpecCouncil == InitCouncil /\ [][NextCouncil]_vars

(***************************************************************************)
(* SpecLevels: the levels table from the empty database on: imports of     *)
(* grading/levels.py (each runs init_levels) and up to MaxLevelCalls calls *)
(* of update_level, in either risk mode                                    *)
(***************************************************************************)
MaxLevelCalls == 4

\* the pnl arguments, in cents: a loss larger than the starting balance, a
\* loss of a fifth of it, a loss of a tenth, a small loss, a small gain, a
\* gain of a fifth
Pnls == {-3000, -400, -200, -20, 40, 400}

InitLevels ==
    /\ levels = <<>>
    /\ risk_mode \in {"SAFER", "LEVEL_STRICT"}
    /\ levelIn = NoLevelCall
    /\ MacroIdle
    /\ ControlIdle
    /\ ProcIdle
    /\ gradeIn = NoGrading
    /\ now = 0
    /\ feed = <<>>
    /\ signals = <<>>
    /\ trades = <<>>
    /\ council = init_council
    /\ last = NoHandler
    /\ gradeCalls = [i \in TradeIds |-> 0]
    /\ levelCalls = [i \in TradeIds |-> 0]
    /\ aggIn = IdleAggIn
    /\ aggOut = NoAggregation
    /\ verIn = IdleVerIn
    /\ verOut = NoOutcome
    /\ PlanIdle

\* a process imports grading/levels.py
ImportLevels ==
    /\ levels' = import_levels(levels, risk_mode)
    /\ levelIn' = [n |-> levelIn.n, pnl |-> 0, result |-> "START"]
    /\ UNCHANGED <<gradeIn, now, feed, signals, trades, council, risk_mode,
                   last, gradeCalls, levelCalls, aggVars, verVars, planVars,
                   macroVars, ctlVars, procVars>>

\* a call of update_level(pnl, result) by a process that imported the module
UpdateLevel ==
    \E pnl \in Pnls, result \in ledger_results :
        /\ Len(levels) > 0
        /\ levelIn.n < MaxLevelCalls
        /\ levels' = update_level(levels, pnl, result, risk_mode)
        /\ levelIn' = [n |-> levelIn.n + 1, pnl |-> pnl, result |-> result]
        /\ UNCHANGED <<gradeIn, now, feed, signals, trades, council, risk_mode,
                       last, gradeCalls, levelCalls, aggVars, verVars, planVars,
                       macroVars, ctlVars, procVars>>

NextLevels ==
    \/ ImportLevels
    \/ UpdateLevel

SpecLevels == InitLevels /\ [][NextLevels]_vars

(***************************************************************************)
(* SpecMacro: up to MaxMacroCalls calls of get_macro_verdict in one        *)
(* process, at non-decreasing clocks, each with what data_fetcher would    *)
(* answer                                                                  *)
(***************************************************************************)
MaxMacroCalls == 3

\* the seconds at which the calls are made: the start, half a cache period
\* and a whole one later, and a day and half a cache period later
MacroClocks == {0, 30, CACHE_SECONDS, SECONDS_PER_DAY + 30}

MacroSignals == {-1, 0, 1}

MacroFetches ==
    {MacroNothing, MacroRaise}
        \cup {MacroData(d, y, r) : d \in MacroSignals, y \in MacroSignals,
                                   r \in MacroSignals}

InitMacro ==
    /\ MacroIdle
    /\ ControlIdle
    /\ ProcIdle
    /\ gradeIn = NoGrading
    /\ levelIn = NoLevelCall
    /\ aggIn = IdleAggIn
    /\ aggOut = NoAggregation
    /\ verIn = IdleVerIn
    /\ verOut = NoOutcome
    /\ PlanIdle
    /\ SysInit("SAFER")

MacroVerdict ==
    \E clock \in MacroClocks, fetched \in MacroFetches :
        LET out == get_macro_verdict(macroCache, clock, fetched)
        IN  /\ macroIn.n < MaxMacroCalls
            /\ clock >= macroIn.clock
            /\ macroIn' = [n |-> macroIn.n + 1, clock |-> clock,
                           fetched |-> fetched]
            /\ macroOut' = [verdict |-> out.verdict, called |-> out.called]
            /\ macroCache' = out.cache
            /\ UNCHANGED <<callVars, ctlVars, aggVars, verVars, planVars, sysVars, procVars>>

NextMacro == MacroVerdict

SpecMacro == InitMacro /\ [][NextMacro]_vars

(***************************************************************************)
(* SpecMonitor: the monitoring loop with its globals, the /signal, /pause  *)
(* and /resume commands, the clock over two UTC days and the bar source.   *)
(* Handlers run to completion; every fetch of one pass of                  *)
(* check_pending_trades has the same outcome.                              *)
(***************************************************************************)
MaxMonSignals == 4
MaxMonTrades == 4
MaxMonBars == 1

MonTradeIds == 1..MaxMonTrades

\* the minutes the clock is observed at: the start, the next minute, and
\* the start of the next UTC day
MonInstants == {0, 1, MINUTES_PER_DAY}

\* every module says BUY: a BUY plan when the macro verdict is NEUTRAL, a
\* signal downgraded to NEUTRAL when it is SELL
MonSignalInputs ==
    {inp \in SignalInputs : \A m \in DOMAIN inp.verdicts : inp.verdicts[m] = "BUY"}

\* a bar falls to the BUY stop or rises to the BUY target
MonBarShapes == {<<940, 1000>>, <<1000, 1060>>}

\* a pass whose fetches answer bars, and one whose fetches raise
MonFetchKinds == {"ok", "raise"}

\* no handler ran last
MonNoHandler ==
    [op |-> "none", trade |-> 0, results |-> [i \in MonTradeIds |-> "NONE"],
     crashed |-> FALSE]

MonHandlerState ==
    [trades |-> trades, council |-> council, levels |-> levels,
     gradeCalls |-> gradeCalls, levelCalls |-> levelCalls,
     results |-> [i \in MonTradeIds |-> "NONE"], crashed |-> FALSE]

InitMonitor ==
    /\ now = 0
    /\ feed = <<>>
    /\ signals = <<>>
    /\ trades = <<>>
    /\ council = init_council
    /\ levels = init_levels("SAFER")
    /\ risk_mode = "SAFER"
    /\ last = MonNoHandler
    /\ gradeCalls = [i \in MonTradeIds |-> 0]
    /\ levelCalls = [i \in MonTradeIds |-> 0]
    /\ ControlIdle
    /\ ProcIdle
    /\ MacroIdle
    /\ gradeIn = NoGrading
    /\ levelIn = NoLevelCall
    /\ aggIn = IdleAggIn
    /\ aggOut = NoAggregation
    /\ verIn = IdleVerIn
    /\ verOut = NoOutcome
    /\ PlanIdle

MonTick ==
    \E t \in MonInstants :
        /\ t > now
        /\ now' = t
        /\ last' = MonNoHandler
        /\ UNCHANGED <<feed, signals, trades, council, levels, risk_mode,
                       gradeCalls, levelCalls, ctlVars, macroVars, callVars,
                       aggVars, verVars, planVars, procVars>>

MonNewBar ==
    \E shape \in MonBarShapes :
        /\ Len(feed) < MaxMonBars
        /\ IF feed = <<>> THEN TRUE ELSE feed[Len(feed)].t < now
        /\ feed' = Append(feed, [t |-> now, Low |-> shape[1], High |-> shape[2]])
        /\ last' = MonNoHandler
        /\ UNCHANGED <<now, signals, trades, council, levels, risk_mode,
                       gradeCalls, levelCalls, ctlVars, macroVars, callVars,
                       aggVars, verVars, planVars, procVars>>

\* /pause: answers "already paused" when paused, else set_bot_paused(True)
Pause ==
    /\ paused' = TRUE
    /\ last' = [MonNoHandler EXCEPT !.op = "pause"]
    /\ UNCHANGED <<now, feed, signals, trades, council, levels, risk_mode,
                   gradeCalls, levelCalls, mon, macroVars, callVars, aggVars,
                   verVars, planVars, procVars>>

\* /resume: answers "already running" when running, else
\* set_bot_paused(False)
Resume ==
    /\ paused' = FALSE
    /\ last' = [MonNoHandler EXCEPT !.op = "resume"]
    /\ UNCHANGED <<now, feed, signals, trades, council, levels, risk_mode,
                   gradeCalls, levelCalls, mon, macroVars, callVars, aggVars,
                   verVars, planVars, procVars>>

\* the /signal command
SignalCommand ==
    \E inp \in MonSignalInputs, df \in {Market} :
        LET done == signal_command(signals, trades, paused, inp, df,
                                   get_current_level(levels).balance,
                                   risk_mode, now)
        IN  /\ Len(done.signals) <= MaxMonSignals
            /\ Len(done.trades) <= MaxMonTrades
            /\ signals' = done.signals
            /\ trades' = done.trades
            /\ last' = MonNoHandler
            /\ UNCHANGED <<now, feed, council, levels, risk_mode, gradeCalls,
                           levelCalls, ctlVars, macroVars, callVars, aggVars,
                           verVars, planVars, procVars>>

\* an iteration of the monitoring loop whose signal interval has passed:
\* reset_daily_counters, then generate_signal
MonitorGenerate ==
    \E inp \in MonSignalInputs, df \in {Market} :
        LET done == generate_signal(signals, trades,
                                    reset_daily_counters(mon, now), paused, inp,
                                    df, get_current_level(levels).balance,
                                    risk_mode, now)
        IN  /\ Len(done.signals) <= MaxMonSignals
            /\ Len(done.trades) <= MaxMonTrades
            /\ signals' = done.signals
            /\ trades' = done.trades
            /\ mon' = done.mon
            /\ last' = MonNoHandler
            /\ UNCHANGED <<now, feed, council, levels, risk_mode, gradeCalls,
                           levelCalls, paused, macroVars, callVars, aggVars,
                           verVars, planVars, procVars>>

\* an iteration of the monitoring loop whose check interval has passed:
\* reset_daily_counters, then check_pending_trades
MonitorCheck ==
    \E kind \in MonFetchKinds :
        LET pending == get_pending_trades(trades)
            done    == check_pending(MonHandlerState, pending, now,
                                     [i \in MonTradeIds |-> Fetched(kind, feed)],
                                     <<0, "none">>)
            m       == reset_daily_counters(mon, now)
        IN  /\ trades' = done.trades
            /\ council' = done.council
            /\ levels' = done.levels
            /\ gradeCalls' = done.gradeCalls
            /\ levelCalls' = done.levelCalls
            /\ mon' = [m EXCEPT !.consecutive_losses =
                          consecutive_losses_after(@, pending, done.results)]
            /\ last' = [op |-> "check", trade |-> 0, results |-> done.results,
                        crashed |-> done.crashed]
            /\ UNCHANGED <<now, feed, signals, risk_mode, paused, macroVars,
                           callVars, aggVars, verVars, planVars, procVars>>

NextMonitor ==
    \/ MonTick
    \/ MonNewBar
    \/ Pause
    \/ Resume
    \/ SignalCommand
    \/ MonitorGenerate
    \/ MonitorCheck

SpecMonitor == InitMonitor /\ [][NextMonitor]_vars

(***************************************************************************)
(* SpecRace: the /grade command (bot process) and one pass of              *)
(* check_pending_trades (monitoring process) as they run on the shared     *)
(* store: each read, each verification and each committed write is a step  *)
(* of its own, and the steps of the two processes interleave.  Signals,    *)
(* clock and bars move as in Spec; neither process stops half-way.         *)
(***************************************************************************)
\* the trade a process has in hand
GradeTrade == trades[gradeProc.trade_id]
LoopTrade == trades[Head(loopProc.pending)]

\* /grade reads the trade (get_trade_by_id or get_last_trade) and goes on
\* when the row has no result; otherwise it answers and is over
GradeRead ==
    \E arg \in 0..MaxTrades :
        LET trade_id == IF arg # 0 THEN get_trade_by_id(trades, arg)
                        ELSE get_last_trade(trades)
        IN  /\ gradeProc.pc = "idle"
            /\ IF trade_id = 0 THEN FALSE
               ELSE trades[trade_id].result = NullResult
            /\ gradeProc' = [pc |-> "read", trade_id |-> trade_id,
                             result_data |-> NoOutcome]
            /\ UNCHANGED <<loopProc, sysVars, aggVars, verVars, planVars,
                           callVars, macroVars, ctlVars>>

\* /grade verifies the trade it read; PENDING ends the command
GradeVerify ==
    \E kind \in FetchKinds :
        LET result_data == verify_stored(GradeTrade, now, Fetched(kind, feed))
        IN  /\ gradeProc.pc = "read"
            /\ gradeProc' = IF result_data.result = "PENDING" THEN NoGradeProc
                            ELSE [gradeProc EXCEPT !.pc = "verified",
                                                   !.result_data = result_data]
            /\ UNCHANGED <<loopProc, sysVars, aggVars, verVars, planVars,
                           callVars, macroVars, ctlVars>>

\* /grade: update_trade_result
GradeUpdate ==
    /\ gradeProc.pc = "verified"
    /\ trades' = update_trade_result(trades, gradeProc.trade_id,
                                     gradeProc.result_data,
                                     pnl_of(GradeTrade, gradeProc.result_data.result))
    /\ gradeProc' = [gradeProc EXCEPT !.pc = "updated"]
    /\ UNCHANGED <<loopProc, now, feed, signals, council, levels, risk_mode,
                   last, gradeCalls, levelCalls, aggVars, verVars, planVars,
                   callVars, macroVars, ctlVars>>

\* /grade: grade_council for a WIN or LOSS, with the plan's rr on a WIN
GradeCouncilStep ==
    LET result == gradeProc.result_data.result
    IN  /\ gradeProc.pc = "updated"
        /\ IF result \in ledger_results
           THEN /\ council' = grade_council(council,
                                   get_signal_verdicts(signals[GradeTrade.signal_id]),
                                   GradeTrade.direction, result,
                                   rr_realized_of(result, GradeTrade.rr))
                /\ gradeCalls' = [gradeCalls EXCEPT ![gradeProc.trade_id] = @ + 1]
           ELSE UNCHANGED <<council, gradeCalls>>
        /\ gradeProc' = [gradeProc EXCEPT !.pc = "counciled"]
        /\ UNCHANGED <<loopProc, now, feed, signals, trades, levels, risk_mode,
                       last, levelCalls, aggVars, verVars, planVars, callVars,
                       macroVars, ctlVars>>

\* /grade: update_level for a WIN or LOSS; the command is over
GradeLevelStep ==
    LET result == gradeProc.result_data.result
    IN  /\ gradeProc.pc = "counciled"
        /\ IF result \in ledger_results
           THEN /\ levels' = update_level(levels, pnl_of(GradeTrade, result),
                                          result, risk_mode)
                /\ levelCalls' = [levelCalls EXCEPT ![gradeProc.trade_id] = @ + 1]
           ELSE UNCHANGED <<levels, levelCalls>>
        /\ gradeProc' = NoGradeProc
        /\ UNCHANGED <<loopProc, now, feed, signals, trades, council, risk_mode,
                       last, gradeCalls, aggVars, verVars, planVars, callVars,
                       macroVars, ctlVars>>

\* the loop's position once it is done with the head of its pending list
loop_next(proc) ==
    IF Len(proc.pending) <= 1 THEN NoLoopProc
    ELSE [pc |-> "pending", pending |-> Tail(proc.pending),
          result_data |-> NoOutcome]

\* check_pending_trades reads the pending list; an empty list ends the pass
LoopRead ==
    /\ loopProc.pc = "idle"
    /\ get_pending_trades(trades) # <<>>
    /\ loopProc' = [pc |-> "pending", pending |-> get_pending_trades(trades),
                    result_data |-> NoOutcome]
    /\ UNCHANGED <<gradeProc, sysVars, aggVars, verVars, planVars, callVars,
                   macroVars, ctlVars>>

\* the loop verifies the next trade of the list it read; PENDING: continue
LoopVerify ==
    \E kind \in FetchKinds :
        LET result_data == verify_stored(LoopTrade, now, Fetched(kind, feed))
        IN  /\ loopProc.pc = "pending"
            /\ loopProc' = IF result_data.result = "PENDING" THEN loop_next(loopProc)
                           ELSE [loopProc EXCEPT !.pc = "verified",
                                                 !.result_data = result_data]
            /\ UNCHANGED <<gradeProc, sysVars, aggVars, verVars, planVars,
                           callVars, macroVars, ctlVars>>

\* the loop: update_trade_result
LoopUpdate ==
    /\ loopProc.pc = "verified"
    /\ trades' = update_trade_result(trades, Head(loopProc.pending),
                                     loopProc.result_data,
                                     pnl_of(LoopTrade, loopProc.result_data.result))
    /\ loopProc' = [loopProc EXCEPT !.pc = "updated"]
    /\ UNCHANGED <<gradeProc, now, feed, signals, council, levels, risk_mode,
                   last, gradeCalls, levelCalls, aggVars, verVars, planVars,
                   callVars, macroVars, ctlVars>>

\* the loop: grade_council for a WIN or LOSS, with 2.0 on a WIN
LoopCouncilStep ==
    LET result == loopProc.result_data.result
    IN  /\ loopProc.pc = "updated"
        /\ IF result \in ledger_results
           THEN /\ council' = grade_council(council,
                                   get_signal_verdicts(signals[LoopTrade.signal_id]),
                                   LoopTrade.direction, result,
                                   rr_realized_of(result, MonitorWinR))
                /\ gradeCalls' = [gradeCalls EXCEPT ![Head(loopProc.pending)] = @ + 1]
           ELSE UNCHANGED <<council, gradeCalls>>
        /\ loopProc' = [loopProc EXCEPT !.pc = "counciled"]
        /\ UNCHANGED <<gradeProc, now, feed, signals, trades, levels, risk_mode,
                       last, levelCalls, aggVars, verVars, planVars, callVars,
                       macroVars, ctlVars>>

\* the loop: update_level for a WIN or LOSS, then the next trade of the list
LoopLevelStep ==
    LET result == loopProc.result_data.result
    IN  /\ loopProc.pc = "counciled"
        /\ IF result \in ledger_results
           THEN /\ levels' = update_level(levels, pnl_of(LoopTrade, result),
                                          result, risk_mode)
                /\ levelCalls' = [levelCalls EXCEPT ![Head(loopProc.pending)] = @ + 1]
           ELSE UNCHANGED <<levels, levelCalls>>
        /\ loopProc' = loop_next(loopProc)
        /\ UNCHANGED <<gradeProc, now, feed, signals, trades, council, risk_mode,
                       last, gradeCalls, aggVars, verVars, planVars, callVars,
                       macroVars, ctlVars>>

NextRace ==
    \/ Tick
    \/ NewBar
    \/ GenerateSignal
    \/ GradeRead
    \/ GradeVerify
    \/ GradeUpdate
    \/ GradeCouncilStep
    \/ GradeLevelStep
    \/ LoopRead
    \/ LoopVerify
    \/ LoopUpdate
    \/ LoopCouncilStep
    \/ LoopLevelStep

SpecRace == Init /\ [][NextRace]_vars

(***************************************************************************)
(* SpecLive: SpecRace with a monitoring loop that keeps running and a      *)
(* clock that keeps passing: plans are logged in the first two minutes and *)
(* the clock reaches a minute at which each of them is more than a         *)
(* verification window old.                                                *)
(***************************************************************************)
\* the last minute a plan is logged at, and the minutes the clock is seen at
LastEntry == 1
LiveInstants == {0, LastEntry, LastEntry + VERIFICATION_WINDOW_BARS + 1}

LiveTick ==
    \E t \in LiveInstants :
        /\ t > now
        /\ now' = t
        /\ UNCHANGED <<feed, signals, trades, council, levels, risk_mode, last,
                       gradeCalls, levelCalls, aggVars, verVars, planVars, callVars,
                       macroVars, ctlVars, procVars>>

\* a signal that comes with a plan, logged in the first minutes
LiveGenerate ==
    /\ now <= LastEntry
    /\ GenerateSignal
    /\ Len(trades') > Len(trades)

\* the next step of the monitoring loop's pass, or the start of a new pass
LoopStep ==
    \/ LoopRead
    \/ LoopVerify
    \/ LoopUpdate
    \/ LoopCouncilStep
    \/ LoopLevelStep

NextLive ==
    \/ LiveTick
    \/ NewBar
    \/ LiveGenerate
    \/ GradeRead
    \/ GradeVerify
    \/ GradeUpdate
    \/ GradeCouncilStep
    \/ GradeLevelStep
    \/ LoopRead
    \/ LoopVerify
    \/ LoopUpdate
    \/ LoopCouncilStep
    \/ LoopLevelStep

\* time passes, and the main loop goes on: it calls check_pending_trades
\* again and again (the market is open again and again) and every pass runs
\* to its end
SpecLive ==
    Init /\ [][NextLive]_vars /\ WF_vars(LiveTick) /\ WF_vars(LoopStep)

(***************************************************************************)
(* Properties of the aggregator, checked under SpecAgg                     *)
(***************************************************************************)
Aggregated == aggOut # NoAggregation

\* the modules config.example.py weighs 1.0; every other module counts 0.5
FullWeightModules == {"trend", "candlestick", "sr", "volume"}

\* the score of a verdict map, from the counts of BUY and SELL votes
ExpectedScore(v) ==
    LET B == {m \in DOMAIN v : v[m] = "BUY"}
        S == {m \in DOMAIN v : v[m] = "SELL"}
    IN  100 * Cardinality(B \cap FullWeightModules)
        + 50 * Cardinality(B \ FullWeightModules)
        - 100 * Cardinality(S \cap FullWeightModules)
        - 50 * Cardinality(S \ FullWeightModules)

Opposed(a, b) == (a = "BUY" /\ b = "SELL") \/ (a = "SELL" /\ b = "BUY")

\* C8: the final verdict is NEUTRAL with macro_adjusted = true exactly when
\* the technical verdict and the macro verdict are BUY/SELL opposites; in
\* every other case the final verdict is the technical verdict and
\* macro_adjusted = false.
C8_MacroGate ==
    Aggregated =>
        IF Opposed(aggOut.technical_verdict, aggIn.macro_verdict)
        THEN aggOut.final_verdict = "NEUTRAL" /\ aggOut.macro_adjusted = TRUE
        ELSE /\ aggOut.final_verdict = aggOut.technical_verdict
             /\ aggOut.macro_adjusted = FALSE

C8_Witness ==
    /\ Aggregated
    /\ aggOut.technical_verdict = "SELL"
    /\ aggIn.macro_verdict = "BUY"
    /\ aggOut.final_verdict = "NEUTRAL"
    /\ aggOut.macro_adjusted = TRUE

\* C9: the score is the sum over the supplied modules of polarity times
\* weight (a module WEIGHTS does not name weighing 0.5, the macro verdict
\* contributing nothing); the technical verdict is BUY when score >= 2.0,
\* SELL when score <= -2.0, otherwise NEUTRAL; the empty map gives NEUTRAL
\* with score 0.
C9_ScoreAndTechnicalVerdict ==
    Aggregated =>
        LET expected == ExpectedScore(aggIn.verdicts)
        IN  /\ aggOut.score = expected
            /\ aggOut.technical_verdict =
                 (IF expected >= 200 THEN "BUY"
                  ELSE IF expected <= -200 THEN "SELL" ELSE "NEUTRAL")
            /\ DOMAIN aggIn.verdicts = {} =>
                 aggOut.score = 0 /\ aggOut.technical_verdict = "NEUTRAL"

C9_Witness ==
    /\ Aggregated
    /\ UnknownModule \in DOMAIN aggIn.verdicts
    /\ aggIn.verdicts[UnknownModule] = "SELL"
    /\ aggOut.score = -200
    /\ aggOut.technical_verdict = "SELL"
    /\ aggIn.macro_verdict = "BUY"

\* C10: before clamping, confidence = base + (number of modules whose verdict
\* equals the technical verdict) x per-agreement bonus, plus the align bonus
\* when the final verdict is BUY/SELL and macro equals it, minus the contra
\* penalty when the final verdict is BUY/SELL and macro opposes it, for every
\* technical verdict, NEUTRAL included.
C10_ConfidenceCountsAgreeingModules ==
    Aggregated =>
        LET v == aggIn.verdicts
            agreeing == Cardinality({m \in DOMAIN v : v[m] = aggOut.technical_verdict})
            adjustment ==
                IF aggOut.final_verdict \in Directions
                   /\ aggIn.macro_verdict = aggOut.final_verdict THEN 10
                ELSE IF aggOut.final_verdict \in Directions
                        /\ Opposed(aggOut.final_verdict, aggIn.macro_verdict) THEN -10
                ELSE 0
        IN  aggOut.unclamped = 50 + agreeing * 5 + adjustment

(***************************************************************************)
(* Properties of the verifier, checked under SpecVerify                    *)
(***************************************************************************)
Verified == verOut # NoOutcome

\* the scan of the bars is reached: the window has not elapsed and the bar
\* source answered with a frame
Scanned ==
    /\ Verified
    /\ verIn.clock - verIn.entry_time <= 120
    /\ verIn.fetched.status = "ok"

StopTouched(b) ==
    IF verIn.direction = "BUY" THEN b.Low <= verIn.sl_price
    ELSE b.High >= verIn.sl_price

TargetTouched(b) ==
    IF verIn.direction = "BUY" THEN b.High >= verIn.tp_price
    ELSE b.Low <= verIn.tp_price

\* positions, in the fetched frame, of the bars strictly after the entry
PostEntry ==
    {i \in 1..Len(verIn.fetched.bars) : verIn.fetched.bars[i].t > verIn.entry_time}

\* 1-based index of the frame's bar i within the post-entry bars
PostEntryIndex(i) == Cardinality({j \in PostEntry : j <= i})

Touching ==
    {i \in PostEntry : StopTouched(verIn.fetched.bars[i])
                       \/ TargetTouched(verIn.fetched.bars[i])}

\* position of the earliest post-entry bar that touches a level, 0 if none
FirstTouch ==
    IF Touching = {} THEN 0
    ELSE CHOOSE i \in Touching : \A j \in Touching : i <= j

\* C2: when the scan is reached and the earliest post-entry bar that touches
\* either level touches both, the result is LOSS with exit_price = stop,
\* bars = that bar's 1-based index and rr = -1.0, for both directions.
C2_SameBarTieIsLoss ==
    (Scanned /\ FirstTouch # 0) =>
        LET b == verIn.fetched.bars[FirstTouch]
        IN  (StopTouched(b) /\ TargetTouched(b)) =>
                verOut = [result |-> "LOSS", exit_price |-> verIn.sl_price,
                          bars |-> PostEntryIndex(FirstTouch), rr |-> -10]

C2_Witness ==
    /\ Scanned
    /\ verIn.direction = "SELL"
    /\ FirstTouch # 0
    /\ PostEntryIndex(FirstTouch) = 2
    /\ StopTouched(verIn.fetched.bars[FirstTouch])
    /\ TargetTouched(verIn.fetched.bars[FirstTouch])
    /\ verOut.result = "LOSS"

\* C3: only bars strictly after the entry time count, in chronological
\* order, and the first bar that touches the stop or the target decides: if
\* it reaches the stop the result is LOSS with bars = its index; if it
\* reaches the target and not the stop the result is WIN with bars = its
\* index and exit_price = target; no touching bar at all leaves the trade
\* PENDING.  Later bars, and bars at or before the entry time, never matter.
C3_FirstTouchDecides ==
    Scanned =>
        IF FirstTouch = 0
        THEN verOut.result = "PENDING"
        ELSE LET b == verIn.fetched.bars[FirstTouch]
             IN  /\ StopTouched(b) =>
                      /\ verOut.result = "LOSS"
                      /\ verOut.bars = PostEntryIndex(FirstTouch)
                 /\ (TargetTouched(b) /\ ~StopTouched(b)) =>
                      /\ verOut.result = "WIN"
                      /\ verOut.bars = PostEntryIndex(FirstTouch)
                      /\ verOut.exit_price = verIn.tp_price

\* a WIN decided by the second post-entry bar, with the stop reached both by
\* the bar stamped with the entry time and by a later bar
C3_Witness ==
    /\ Scanned
    /\ verOut.result = "WIN"
    /\ verOut.bars = 2
    /\ Len(verIn.fetched.bars) = MaxBarTime
    /\ StopTouched(verIn.fetched.bars[1])
    /\ verIn.fetched.bars[1].t = verIn.entry_time
    /\ StopTouched(verIn.fetched.bars[MaxBarTime])

\* C4: when more than VERIFICATION_WINDOW_BARS minutes have elapsed since the
\* entry the result is EXPIRED (exit_price none, rr 0) whatever the bar
\* source would answer; when at most the window has elapsed the result is
\* never EXPIRED.
C4_ExpiryByClockOnly ==
    Verified =>
        IF verIn.clock - verIn.entry_time > 120
        THEN /\ verOut.result = "EXPIRED"
             /\ verOut.exit_price = None
             /\ verOut.rr = 0
        ELSE verOut.result # "EXPIRED"

\* expired although the first bar after the entry reaches the target
C4_Witness ==
    /\ Verified
    /\ verOut.result = "EXPIRED"
    /\ verIn.clock - verIn.entry_time = 121
    /\ verIn.fetched.status = "ok"
    /\ FirstTouch # 0
    /\ TargetTouched(verIn.fetched.bars[FirstTouch])
    /\ ~StopTouched(verIn.fetched.bars[FirstTouch])

\* the window's last minute is not expired: a WIN at exactly 120 minutes
C4_BoundaryWitness ==
    /\ Verified
    /\ verIn.clock - verIn.entry_time = 120
    /\ verOut.result = "WIN"

(***************************************************************************)
(* Properties of the handlers, checked under Spec                          *)
(***************************************************************************)
\* the trades stored so far
Stored == 1..Len(trades)

\* the trades the last handler run met with a WIN or a LOSS
MetLedgerResult(l) == {i \in TradeIds : l.results[i] \in {"WIN", "LOSS"}}

\* C1: once a trade has a stored result, a /grade on it is answered "already
\* graded" and leaves trades, council and levels as they were, and no handler
\* run (a monitoring pass included) verifies it again or changes its row or
\* the ledger writes made for it.
C1_GradedTradeIsNeverRegraded ==
    [][/\ \A i \in Stored :
            trades[i].result # NullResult =>
                /\ trades'[i] = trades[i]
                /\ gradeCalls'[i] = gradeCalls[i]
                /\ levelCalls'[i] = levelCalls[i]
                /\ last'.results[i] \in {"NONE", "ALREADY_GRADED"}
       /\ (last'.op = "grade" /\ last'.trade \in Stored) =>
            (trades[last'.trade].result # NullResult =>
                /\ last'.results[last'.trade] = "ALREADY_GRADED"
                /\ UNCHANGED <<trades, council, levels>>)
      ]_vars

\* a /grade on a graded trade was just answered, with both ledgers written
\* for that trade before
C1_Witness ==
    /\ last.op = "grade"
    /\ last.trade \in Stored
    /\ last.results[last.trade] = "ALREADY_GRADED"
    /\ trades[last.trade].result = "WIN"
    /\ gradeCalls[last.trade] = 1
    /\ Len(levels) = 2

\* C5: when the verification of an ungraded trade answers ERROR, the stored
\* result of the trade stays empty, so the trade stays in the pending set.
C5_ErrorLeavesTradePending ==
    [][\A i \in Stored :
          (trades[i].result = NullResult /\ last'.results[i] = "ERROR"
             /\ ~last'.crashed)
          => /\ trades'[i].result = NullResult
             /\ \E k \in 1..Len(get_pending_trades(trades')) :
                   get_pending_trades(trades')[k] = i
      ]_vars

\* C6: a handler run changes the council or the level history only when it
\* met a WIN or a LOSS; a trade met with PENDING, EXPIRED or ERROR gets no
\* grade_council and no update_level; a trade met with WIN or LOSS gets at
\* most one of each, and exactly one of each when the run completes, the
\* level history growing by one row per such trade.
C6_OnlyWinLossReachLedgers ==
    [][/\ MetLedgerResult(last') = {} => UNCHANGED <<council, levels>>
       /\ \A i \in TradeIds :
            /\ last'.results[i] \notin {"WIN", "LOSS"} =>
                  /\ gradeCalls'[i] = gradeCalls[i]
                  /\ levelCalls'[i] = levelCalls[i]
            /\ last'.results[i] \in {"WIN", "LOSS"} =>
                  /\ gradeCalls'[i] - gradeCalls[i] \in {0, 1}
                  /\ levelCalls'[i] - levelCalls[i] \in {0, 1}
                  /\ ~last'.crashed =>
                        /\ gradeCalls'[i] = gradeCalls[i] + 1
                        /\ levelCalls'[i] = levelCalls[i] + 1
       /\ ~last'.crashed =>
            Len(levels') = Len(levels) + Cardinality(MetLedgerResult(last'))
      ]_vars

\* a completed monitoring pass met one trade with WIN and another with
\* EXPIRED: one council grading and one level row, both for the WIN
C6_Witness ==
    /\ last.op = "check"
    /\ ~last.crashed
    /\ \E i, j \in Stored :
          /\ last.results[i] = "WIN"
          /\ last.results[j] = "EXPIRED"
          /\ gradeCalls[i] = 1 /\ levelCalls[i] = 1
          /\ gradeCalls[j] = 0 /\ levelCalls[j] = 0
    /\ Len(levels) = 2
    /\ council # init_council

\* C7: after a monitoring pass that ran to its end, every trade stored as WIN
\* or LOSS has exactly one council grading and exactly one level row, whether
\* or not an earlier handler run stopped between two of its writes.
C7_LedgersMatchGradedTrades ==
    (last.op = "check" /\ ~last.crashed) =>
        \A i \in Stored :
            trades[i].result \in {"WIN", "LOSS"} =>
                gradeCalls[i] = 1 /\ levelCalls[i] = 1

(***************************************************************************)
(* Further properties of the aggregator, checked under SpecAgg             *)
(***************************************************************************)
\* C11: for every verdict map and every macro verdict the returned
\* confidence lies within [floor, cap] = [30, 90].
C11_ConfidenceWithinFloorAndCap ==
    Aggregated =>
        /\ aggOut.confidence >= 30
        /\ aggOut.confidence <= 90
        /\ aggOut.confidence >= ConfidenceFloor
        /\ aggOut.confidence <= CONFIDENCE.cap

\* eight BUY voters and an aligned macro: 100 before the clamp, 90 returned
C11_Witness ==
    /\ Aggregated
    /\ aggOut.unclamped = 100
    /\ aggOut.confidence = 90

\* C37: for every verdict map and macro verdict, a final BUY or SELL comes
\* with a macro verdict that is NEUTRAL or the same, so CONFIDENCE
\* macro_contra is never added, the returned confidence is at least
\* CONFIDENCE base, and the floor never decides: the value before the clamp
\* is above the floor and the returned value is min(value, cap).
C37_ContraPenaltyNeverApplied ==
    Aggregated =>
        /\ aggOut.final_verdict \in Directions =>
               aggIn.macro_verdict \in {"NEUTRAL", aggOut.final_verdict}
        /\ macro_adjustment(aggOut.final_verdict, aggIn.macro_verdict)
               # CONFIDENCE.macro_contra
        /\ aggOut.confidence >= CONFIDENCE.base
        /\ aggOut.unclamped > ConfidenceFloor
        /\ aggOut.confidence = Min(aggOut.unclamped, CONFIDENCE.cap)

\* a technical BUY under a macro SELL: downgraded to NEUTRAL and returned
\* with base plus the aligned modules, no penalty
C37_Witness ==
    /\ Aggregated
    /\ aggOut.technical_verdict = "BUY"
    /\ aggIn.macro_verdict = "SELL"
    /\ aggOut.final_verdict = "NEUTRAL"
    /\ aggOut.confidence = CONFIDENCE.base
                            + aligned_count(aggIn.verdicts, "BUY")
                              * CONFIDENCE.half_weight

\* the lowest confidence returned is the base: no module gave a verdict
C37_WitnessBase ==
    /\ Aggregated
    /\ aggOut.confidence = CONFIDENCE.base
    /\ aggOut.unclamped = CONFIDENCE.base

(***************************************************************************)
(* Properties of the planner, checked under SpecPlan                       *)
(***************************************************************************)
\* create_trade_plan returned a plan
PlanReturned == planOut.direction \in Directions

\* the ATR of the window is a number greater than 0
PositiveAtr == planIn.df.rows >= ATR_PERIOD /\ planIn.df.tr_sum > 0

\* C12: every returned plan has sl < entry < tp for BUY and tp < entry < sl
\* for SELL, for every bar window whose ATR is greater than 0.
C12_StopEntryTargetOrdered ==
    (PlanReturned /\ PositiveAtr) =>
        IF planOut.direction = "BUY"
        THEN planOut.sl < planOut.entry /\ planOut.entry < planOut.tp
        ELSE planOut.tp < planOut.entry /\ planOut.entry < planOut.sl

\* create_trade_plan was called
Planned == planOut # NotPlanned

\* C13: create_trade_plan returns None, without raising, whenever the bar
\* window is empty or the ATR is unavailable (a window with fewer bars than
\* ATR_PERIOD included) or is <= 0.
C13_NoPlanWithoutUsableAtr ==
    (Planned /\ ~PositiveAtr) => planOut = NoPlan

\* C14: for every returned plan tp_pips = RR_TARGET x stop_pips rounded to
\* whole pips, and potential_gain / potential_loss equals RR_TARGET within
\* the rounding of the two amounts to a cent: the quotient exists and
\* gain - RR_TARGET x loss is at most a cent of gain and a cent of loss.
C14_GainOverLossIsRewardMultiple ==
    PlanReturned =>
        LET gap == 10 * planOut.potential_gain
                   - RISK.rr_target * planOut.potential_loss
        IN  /\ planOut.tp_pips
                 = RoundHalfEven(RISK.rr_target * planOut.stop_pips, 10)
            /\ planOut.potential_loss # 0
            /\ gap <= 10 + RISK.rr_target
            /\ -gap <= 10 + RISK.rr_target

\* the risk amount of the call as a percentage of the balance, and
\* risk_amount / (stop_pips x PIP_VALUE_PER_LOT) rounded to the lot step
RiskPct ==
    IF planIn.mode = "LEVEL_STRICT" THEN RISK.strict_pct
    ELSE RISK.risk_per_trade_pct

RoundedLots ==
    RoundHalfEven(RiskPct * planIn.balance, 100 * planOut.stop_pips)

\* C15: the lot size of every returned plan lies in [BROKER_MIN_LOT,
\* BROKER_MAX_LOT] in whole lot steps, and equals risk_amount / (stop_pips x
\* PIP_VALUE_PER_LOT) rounded to the step whenever that value lies inside
\* the limits.
C15_LotsWithinBrokerLimits ==
    PlanReturned =>
        /\ planOut.lots \in RISK.min_lot..RISK.max_lot
        /\ (planOut.stop_pips > 0 /\ RoundedLots \in RISK.min_lot..RISK.max_lot)
              => planOut.lots = RoundedLots

\* a plan whose rounded size is above the broker maximum and is returned
\* with the maximum
C15_Witness ==
    /\ PlanReturned
    /\ planOut.stop_pips > 0
    /\ RoundedLots > RISK.max_lot
    /\ planOut.lots = RISK.max_lot

\* a plan whose rounded size is 0 steps and is returned with the minimum
C15_WitnessMinimum ==
    /\ PlanReturned
    /\ planOut.stop_pips > 0
    /\ RoundedLots = 0
    /\ planOut.lots = RISK.min_lot

\* the plan as log_trade_plan stores it and the callers read it back
PlanRow == trade_row(1, 0, planOut)

\* C34: for every plan, the pnl booked on WIN (potential_gain) is the plan's
\* rr times the amount booked on LOSS (risk_amount), clamped lot sizes
\* included.
C34_WinPnlIsRewardTimesLossPnl ==
    PlanReturned =>
        10 * pnl_of(PlanRow, "WIN") = planOut.rr * (-pnl_of(PlanRow, "LOSS"))

\* the same for the plans whose lot size is the unclamped quotient, up to
\* the value of half a lot step on the loss side and the rounding of
\* risk_amount to a cent
C34_WithinHalfStepWhenUnclamped ==
    (PlanReturned /\ planOut.stop_pips > 0
        /\ RoundedLots \in RISK.min_lot..RISK.max_lot) =>
        LET gap == 10 * pnl_of(PlanRow, "WIN")
                   - planOut.rr * (-pnl_of(PlanRow, "LOSS"))
        IN  Abs(gap) <= 5 * planOut.tp_pips + 10

\* C35: for every returned plan, potential_loss (stop_pips x
\* PIP_VALUE_PER_LOT x lots) exceeds risk_amount by at most the value of one
\* lot step at the plan's stop distance (stop_pips x PIP_VALUE_PER_LOT x
\* BROKER_LOT_STEP, which is stop_pips cents).
C35_LossWithinOneLotStepOfRisk ==
    PlanReturned =>
        planOut.potential_loss <= planOut.risk_amount + planOut.stop_pips

\* a plan raised to the minimum lot whose potential loss is above its risk
\* amount: balance 20.00 at 1%, stop 64 pips, loss 0.64 against risk 0.20
C35_Witness ==
    /\ PlanReturned
    /\ planIn.balance = INITIAL_BALANCE
    /\ planOut.stop_pips > 0
    /\ RoundedLots = 0
    /\ planOut.lots = RISK.min_lot
    /\ planOut.potential_loss > planOut.risk_amount

\* a plan whose quotient lies halfway between two steps and is rounded up:
\* 0.96 at risk over 64 pips is a step and a half, sized at two steps
C35_WitnessRoundedUp ==
    /\ PlanReturned
    /\ planOut.lots = 2
    /\ 2 * RiskPct * planIn.balance = 3 * 100 * planOut.stop_pips
    /\ planOut.potential_loss > planOut.risk_amount

\* the bound is met with equality: balance 0.01, risk amount 0.00
C35_WitnessEquality ==
    /\ PlanReturned
    /\ planOut.stop_pips > 0
    /\ planOut.potential_loss = planOut.risk_amount + planOut.stop_pips

(***************************************************************************)
(* Further properties of the verifier and its callers, checked under       *)
(* SpecVerify                                                              *)
(***************************************************************************)
\* C16: the realized R is the reward multiple stored with the plan on WIN,
\* -1.0 on LOSS and 0 on EXPIRED, PENDING or ERROR, in the rr the verifier
\* returns and in the rr_realized each caller (the monitoring pass, /grade)
\* hands to grade_council for a WIN or a LOSS.
C16_RealizedRIsPlanReward ==
    Verified =>
        LET r == verOut.result
            expected == IF r = "WIN" THEN verIn.rr
                        ELSE IF r = "LOSS" THEN -10 ELSE 0
        IN  /\ verOut.rr = expected
            /\ r \in ledger_results =>
                  /\ rr_realized_of(r, MonitorWinR) = expected
                  /\ rr_realized_of(r, verIn.rr) = expected

\* the verified plan is still inside its window
InWindow == ~is_expired(verIn.clock, verIn.entry_time)

C17_WitnessNone ==
    /\ Verified
    /\ InWindow
    /\ verIn.fetched.status = "none"
    /\ verOut.result = "PENDING"

(***************************************************************************)
(* Properties of the council ledger, checked under SpecCouncil             *)
(***************************************************************************)
\* the step is a call of grade_council
Graded == gradeIn'.n = gradeIn.n + 1

\* C18: for each module whose verdict equals the trade direction, a WIN adds
\* 1 to correct and a LOSS adds 1 to incorrect, both add the realized R to
\* total_r and 1 to trade_count, and its neutral counter stays.
C18_AlignedModuleIsGraded ==
    [][Graded =>
         \A m \in Members :
            gradeIn'.module_verdicts[m] = gradeIn'.trade_direction =>
                /\ council'[m].correct = council[m].correct
                      + (IF gradeIn'.trade_result = "WIN" THEN 1 ELSE 0)
                /\ council'[m].incorrect = council[m].incorrect
                      + (IF gradeIn'.trade_result = "LOSS" THEN 1 ELSE 0)
                /\ council'[m].total_r = council[m].total_r + gradeIn'.rr_realized
                /\ council'[m].trade_count = council[m].trade_count + 1
                /\ council'[m].neutral = council[m].neutral
      ]_vars

\* after a WIN and a LOSS with trend aligned both times: one correct, one
\* incorrect, total_r = 2.0 - 1.0, two graded trades
C18_Witness ==
    /\ gradeIn.n = 2
    /\ gradeIn.trade_result = "LOSS"
    /\ gradeIn.module_verdicts["trend"] = gradeIn.trade_direction
    /\ council["trend"].correct = 1
    /\ council["trend"].incorrect = 1
    /\ council["trend"].total_r = 10
    /\ council["trend"].trade_count = 2
    /\ council["rsi"].trade_count = 0

\* C19: a module whose verdict is NEUTRAL has only its neutral counter
\* increased by 1; a module whose verdict is the opposite of the trade
\* direction has no counter changed; correct, incorrect, total_r and
\* trade_count stay in both cases.
C19_NeutralAndOpposedModules ==
    [][Graded =>
         \A m \in Members :
            LET verdict == gradeIn'.module_verdicts[m]
                kept == /\ council'[m].correct = council[m].correct
                        /\ council'[m].incorrect = council[m].incorrect
                        /\ council'[m].total_r = council[m].total_r
                        /\ council'[m].trade_count = council[m].trade_count
            IN  /\ verdict = "NEUTRAL" =>
                      kept /\ council'[m].neutral = council[m].neutral + 1
                /\ Opposed(verdict, gradeIn'.trade_direction) =>
                      kept /\ council'[m].neutral = council[m].neutral
      ]_vars

\* one grading with trend opposed, rsi aligned and sr NEUTRAL: trend has no
\* counter changed, sr has one neutral
C19_Witness ==
    /\ gradeIn.n = 1
    /\ Opposed(gradeIn.module_verdicts["trend"], gradeIn.trade_direction)
    /\ gradeIn.module_verdicts["rsi"] = gradeIn.trade_direction
    /\ council["trend"] = init_council["trend"]
    /\ council["sr"].neutral = 1
    /\ council["sr"].trade_count = 0
    /\ council["rsi"].trade_count = 1

\* C20: after any sequence of gradings every member's stored accuracy is
\* exactly 100 x correct / (correct + incorrect) (0 for no graded trade) and
\* its stored expectancy exactly total_r / trade_count (0 for no trade).
\* Accuracy is stored in tenths of a percent, expectancy in hundredths of R,
\* total_r in tenths of R.
C20_AccuracyAndExpectancyExact ==
    \A m \in Members :
        LET row == council[m]
            total_graded == row.correct + row.incorrect
        IN  /\ IF total_graded = 0 THEN row.accuracy = 0
               ELSE row.accuracy * total_graded = 1000 * row.correct
            /\ IF row.trade_count = 0 THEN row.expectancy = 0
               ELSE row.expectancy * row.trade_count = 10 * row.total_r

\* C21: macro is not a council member: a call of grade_council changes no
\* counter of the macro entry of the council table.
C21_MacroEntryIsNeverGraded ==
    [][Graded => council'["macro"] = council["macro"]]_vars

\* the raw counters of a member row are sound
CountersSound(row) ==
    /\ row.trade_count = row.correct + row.incorrect
    /\ row.correct >= 0 /\ row.incorrect >= 0
    /\ row.neutral >= 0 /\ row.trade_count >= 0

\* C38: in every council state, before and after every grade_council call,
\* each member has trade_count = correct + incorrect and non-negative
\* counters; a call lowers none of the four counters and raises correct +
\* incorrect + neutral of a member by at most 1.
C38_CountersSoundAndMonotone ==
    [][\A m \in Members :
          LET old == council[m]
              new == council'[m]
          IN  /\ CountersSound(old)
              /\ CountersSound(new)
              /\ new.correct >= old.correct
              /\ new.incorrect >= old.incorrect
              /\ new.neutral >= old.neutral
              /\ new.trade_count >= old.trade_count
              /\ (new.correct + new.incorrect + new.neutral)
                    - (old.correct + old.incorrect + old.neutral) <= 1
      ]_vars

\* three calls: trend aligned with a WIN, aligned with a LOSS, and opposed
\* (nothing counted); sr NEUTRAL in all three
C38_Witness ==
    /\ gradeIn.n = MaxGradings
    /\ council["trend"].correct = 1
    /\ council["trend"].incorrect = 1
    /\ council["trend"].neutral = 0
    /\ council["trend"].trade_count = 2
    /\ council["sr"].neutral = MaxGradings
    /\ council["sr"].trade_count = 0

(***************************************************************************)
(* Properties of the level ledger, checked under SpecLevels                *)
(***************************************************************************)
\* the step is a call of update_level
LevelUpdated == levelIn'.n = levelIn.n + 1

\* the row update_level read, and the row it wrote
RowRead == levels[Len(levels)]
RowWritten == levels'[Len(levels')]

\* C22: in LEVEL_STRICT mode, whatever pnl is, a WIN stores level + 1 and
\* balance x 1.2, a LOSS stores max(1, level - 1) and balance / 1.2 (both to
\* the nearest cent), and the stored target is the new balance x 1.2 to
\* within a cent.
C22_StrictModeIgnoresPnl ==
    [][LevelUpdated /\ risk_mode = "LEVEL_STRICT" =>
         /\ levelIn'.result = "WIN" =>
               /\ RowWritten.level = RowRead.level + 1
               /\ 2 * Abs(5 * RowWritten.balance - 6 * RowRead.balance) <= 5
         /\ levelIn'.result = "LOSS" =>
               /\ RowWritten.level = Max(1, RowRead.level - 1)
               /\ 2 * Abs(6 * RowWritten.balance - 5 * RowRead.balance) <= 6
         /\ Abs(5 * RowWritten.target - 6 * RowWritten.balance) <= 5
      ]_vars

\* the scenario: level 1, balance 20.00, WIN called with a pnl of -0.20
\* gives level 2, balance 24.00, target 28.80
C22_Witness ==
    /\ risk_mode = "LEVEL_STRICT"
    /\ Len(levels) = 2
    /\ levels[1] = [level |-> 1, balance |-> 2000, target |-> 2400,
                    result |-> "START", mode |-> "LEVEL_STRICT"]
    /\ levelIn = [n |-> 1, pnl |-> -20, result |-> "WIN"]
    /\ levels[2].level = 2
    /\ levels[2].balance = 2400
    /\ levels[2].target = 2880

\* a LOSS at level 2 called with a pnl of +4.00: level 1, balance / 1.2
C22_WitnessLoss ==
    /\ risk_mode = "LEVEL_STRICT"
    /\ Len(levels) = 3
    /\ levels[2].level = 2
    /\ levelIn = [n |-> 2, pnl |-> 400, result |-> "LOSS"]
    /\ levels[3].level = 1
    /\ levels[3].balance = 2000

\* the SAFER branch of update_level as the contract words it: the new
\* balance is balance + pnl; reaching the target raises the level by one and
\* sets the target to the new balance x 1.2; else falling to balance / 1.2
\* or lower lowers the level (not below 1) and sets the target likewise;
\* else level and target stay
MilestoneStep ==
    LET new_balance == RowRead.balance + levelIn'.pnl
        retargeted == 2 * Abs(5 * RowWritten.target - 6 * new_balance) <= 5
    IN  /\ RowWritten.balance = new_balance
        /\ IF new_balance >= RowRead.target
           THEN RowWritten.level = RowRead.level + 1 /\ retargeted
           ELSE IF 6 * new_balance <= 5 * RowRead.balance
           THEN RowWritten.level = Max(1, RowRead.level - 1) /\ retargeted
           ELSE /\ RowWritten.level = RowRead.level
                /\ RowWritten.target = RowRead.target

\* the balance goes from below the current target to the target or above
CrossesTarget ==
    /\ RowRead.balance < RowRead.target
    /\ RowWritten.balance >= RowRead.target

\* C23: in SAFER mode every update_level call is a MilestoneStep, and the
\* level rises, by exactly one, exactly in the calls in which the balance
\* crosses the current target from below.
C23_MilestoneLevelRisesOnCrossing ==
    [][LevelUpdated /\ risk_mode = "SAFER" =>
         /\ MilestoneStep
         /\ CrossesTarget => RowWritten.level = RowRead.level + 1
         /\ RowWritten.level > RowRead.level => CrossesTarget
      ]_vars

\* C24: in both modes, after any sequence of update_level calls, every
\* stored level, the current one included, is at least 1.
C24_LevelAtLeastOne ==
    \A i \in 1..Len(levels) : levels[i].level >= 1

\* a call that would take level 1 down: a LEVEL_STRICT LOSS at level 1, or a
\* SAFER fall to balance / 1.2 or lower at level 1; the level stays 1
C24_Witness ==
    /\ Len(levels) >= 2
    /\ levelIn.n = Len(levels) - 1
    /\ levels[Len(levels) - 1].level = 1
    /\ levels[Len(levels)].level = 1
    /\ IF risk_mode = "LEVEL_STRICT" THEN levelIn.result = "LOSS"
       ELSE 6 * levels[Len(levels)].balance <= 5 * levels[Len(levels) - 1].balance

\* C25: in both modes, after any sequence of update_level calls, every
\* stored balance and target, the current ones included, is greater than 0.
C25_BalanceAndTargetPositive ==
    \A i \in 1..Len(levels) : levels[i].balance > 0 /\ levels[i].target > 0

\* the step is an import of grading/levels.py
Imported == levelIn'.result = "START"

\* C26: an update_level call appends one row and leaves the earlier rows as
\* they were; the row the next call reads is the row appended last; an
\* import creates the START row when the history is empty and changes
\* nothing otherwise, so START is the first row only.
C26_HistoryIsAppendOnly ==
    [][/\ LevelUpdated =>
             /\ Len(levels') = Len(levels) + 1
             /\ SubSeq(levels', 1, Len(levels)) = levels
             /\ get_current_level(levels') = RowWritten
       /\ Imported =>
             IF levels = <<>>
             THEN Len(levels') = 1 /\ levels'[1].result = "START"
             ELSE levels' = levels
       /\ \A i \in 1..Len(levels') : levels'[i].result = "START" => i = 1
      ]_vars

\* two calls, then an import that finds three rows and adds none
C26_Witness ==
    /\ levelIn = [n |-> 2, pnl |-> 0, result |-> "START"]
    /\ Len(levels) = 3
    /\ levels[1].result = "START"
    /\ levels[3].result \in ledger_results

\* the row with which the current level began: the earliest row from which
\* on every row carries the level of the last row
LevelStart(lv) ==
    CHOOSE i \in 1..Len(lv) :
        /\ \A j \in i..Len(lv) : lv[j].level = lv[Len(lv)].level
        /\ IF i = 1 THEN TRUE ELSE lv[i - 1].level # lv[Len(lv)].level

\* the balance has fallen to the level-start balance / 1.2 or lower
FallenFromLevelStart ==
    6 * RowWritten.balance <= 5 * levels[LevelStart(levels)].balance

\* C31: in SAFER mode an update_level call that leaves the balance at or
\* under (balance at which the current level started) / 1.2 lowers the level
\* by one, not below 1, whether one call or several brought the balance
\* there.
C31_LevelDropsOnFallFromLevelStart ==
    [][LevelUpdated /\ risk_mode = "SAFER" /\ FallenFromLevelStart =>
         RowWritten.level = Max(1, RowRead.level - 1)
      ]_vars

\* the same for falls at positive balances of level 2 or higher
C31_AccumulatedFallAtPositiveBalance ==
    [][LevelUpdated /\ risk_mode = "SAFER" /\ FallenFromLevelStart
          /\ RowRead.balance > 0 /\ RowRead.level >= 2 =>
         RowWritten.level = RowRead.level - 1
      ]_vars

\* the same for the fall of one call from the level-start row
C31_SingleFall ==
    [][LevelUpdated /\ risk_mode = "SAFER" /\ FallenFromLevelStart
          /\ LevelStart(levels) = Len(levels) /\ RowRead.balance > 0 =>
         RowWritten.level = Max(1, RowRead.level - 1)
      ]_vars

\* the row's balance is INITIAL_BALANCE x 1.2^(level - 1) to within a cent
BalanceOfLevel(row) ==
    Abs(row.balance * Pow(5, row.level - 1)
          - INITIAL_BALANCE * Pow(6, row.level - 1)) <= Pow(5, row.level - 1)

\* C40: in LEVEL_STRICT mode every stored row, the current one included,
\* has balance = INITIAL_BALANCE x 1.2^(level - 1) to within a cent.
C40_StrictBalanceDeterminedByLevel ==
    risk_mode = "LEVEL_STRICT" =>
        \A i \in 1..Len(levels) : BalanceOfLevel(levels[i])

\* the same for the histories in which no LOSS was booked at level 1
C40_WithoutLossAtLevelOne ==
    (/\ risk_mode = "LEVEL_STRICT"
     /\ \A i \in 2..Len(levels) :
           ~(levels[i].result = "LOSS" /\ levels[i - 1].level = 1)) =>
        \A i \in 1..Len(levels) : BalanceOfLevel(levels[i])

(***************************************************************************)
(* Properties of the macro verdict, checked under SpecMacro                *)
(***************************************************************************)
\* the step is a call of get_macro_verdict that called data_fetcher
MacroFetched == macroIn'.n = macroIn.n + 1 /\ macroOut'.called

\* C28: a call that fetches returns BUY for a signal sum of 1 or more, SELL
\* for -1 or less and NEUTRAL for 0; when the fetch answers nothing or
\* raises it returns NEUTRAL, a verdict the macro gate lets every technical
\* verdict through with, and leaves the cache as it was.
C28_MacroVerdictFromSignalSum ==
    [][MacroFetched =>
         LET f == macroIn'.fetched
         IN  IF f.status = "ok"
             THEN LET sum == f.dxy_signal + f.yield_signal + f.risk_signal
                  IN  /\ sum >= 1 => macroOut'.verdict = "BUY"
                      /\ sum <= -1 => macroOut'.verdict = "SELL"
                      /\ sum = 0 => macroOut'.verdict = "NEUTRAL"
             ELSE /\ macroOut'.verdict = "NEUTRAL"
                  /\ \A t \in Verdicts :
                        macro_gate(t, macroOut'.verdict) = <<t, FALSE>>
                  /\ macroCache' = macroCache
      ]_vars

\* a BUY is cached at second 0; the call at second 60 fetches, the fetch
\* raises, NEUTRAL is returned and the cache still holds the BUY of second 0
C28_Witness ==
    /\ macroIn.n = 2
    /\ macroIn.clock = CACHE_SECONDS
    /\ macroIn.fetched = MacroRaise
    /\ macroOut = [verdict |-> "NEUTRAL", called |-> TRUE]
    /\ macroCache = [set |-> TRUE, verdict |-> "BUY", timestamp |-> 0]

\* a sum of 1 from signals 1, 1, -1 gives BUY
C28_WitnessSum ==
    /\ macroIn.fetched = MacroData(1, -1, 1)
    /\ macroOut = [verdict |-> "BUY", called |-> TRUE]

(***************************************************************************)
(* Properties of signal generation, checked under Spec and SpecMonitor     *)
(***************************************************************************)
\* C27: every trade plan belongs to a logged signal whose final verdict is
\* BUY or SELL and has that verdict as its direction, and no two plans
\* belong to the same signal; so a NEUTRAL signal, downgraded or not, has
\* none.
C27_PlanOnlyForBuyOrSellSignal ==
    /\ \A i \in 1..Len(trades) :
          /\ trades[i].signal_id \in 1..Len(signals)
          /\ signals[trades[i].signal_id].final_verdict \in Directions
          /\ trades[i].direction = signals[trades[i].signal_id].final_verdict
    /\ \A i, j \in 1..Len(trades) :
          i # j => trades[i].signal_id # trades[j].signal_id

\* a signal downgraded to NEUTRAL by the macro gate with no plan, then a
\* SELL signal with its SELL plan
C27_Witness ==
    /\ Len(signals) = 2
    /\ signals[1].final_verdict = "NEUTRAL"
    /\ signals[1].macro_adjusted
    /\ signals[2].final_verdict = "SELL"
    /\ Len(trades) = 1
    /\ trades[1].signal_id = 2
    /\ trades[1].direction = "SELL"

\* C36: for every stored trade plan, the macro verdict logged with its
\* signal is NEUTRAL or the plan's direction, so the 'macro' entry that
\* get_signal_verdicts hands to grade_council never opposes the trade.
C36_NoPlanAgainstMacro ==
    \A i \in 1..Len(trades) :
        LET sig == signals[trades[i].signal_id]
        IN  /\ sig.macro_verdict \in {"NEUTRAL", trades[i].direction}
            /\ ~Opposed(get_signal_verdicts(sig)["macro"], trades[i].direction)

\* a technical SELL under a macro BUY, logged NEUTRAL without a plan, then
\* a SELL signal under a macro SELL with its SELL plan
C36_Witness ==
    /\ Len(signals) = 2
    /\ signals[1].macro_verdict = "BUY"
    /\ signals[1].macro_adjusted
    /\ signals[1].final_verdict = "NEUTRAL"
    /\ Len(trades) = 1
    /\ trades[1].signal_id = 2
    /\ trades[1].direction = "SELL"
    /\ signals[2].macro_verdict = "SELL"

\* a technical SELL under a macro BUY and a technical BUY under a macro
\* SELL, both logged NEUTRAL without a plan
C36_WitnessVetoes ==
    /\ Len(signals) = 2
    /\ signals[1].macro_verdict = "BUY"
    /\ \A m \in DOMAIN signals[1].verdicts : signals[1].verdicts[m] = "SELL"
    /\ signals[2].macro_verdict = "SELL"
    /\ \A m \in DOMAIN signals[2].verdicts : signals[2].verdicts[m] = "BUY"
    /\ signals[1].macro_adjusted /\ signals[2].macro_adjusted
    /\ trades = <<>>

\* the trades a pass of check_pending_trades finds pending
WasPending(i) == i \in 1..Len(trades) /\ trades[i].result = NullResult

MonitorLogged ==
    mon'.signal_count_today
        = reset_daily_counters(mon, now).signal_count_today + 1

\* C30: trade_count_today never exceeds MAX_TRADES_PER_DAY; generate_signal
\* logs nothing while the day's trade count is at the limit or
\* consecutive_losses is CONSECUTIVE_LOSS_COOLDOWN or more; and the counter
\* comes down from there only on a new UTC day or in a pass that met a WIN
\* or an expiry.
C30_SafetyBrakesHold ==
    [][/\ mon'.trade_count_today <= MAX_TRADES_PER_DAY
       /\ MonitorLogged =>
             /\ reset_daily_counters(mon, now).trade_count_today
                   < MAX_TRADES_PER_DAY
             /\ reset_daily_counters(mon, now).consecutive_losses
                   < CONSECUTIVE_LOSS_COOLDOWN
       /\ (/\ mon.consecutive_losses >= CONSECUTIVE_LOSS_COOLDOWN
           /\ mon'.consecutive_losses < CONSECUTIVE_LOSS_COOLDOWN) =>
             \/ today(now) # mon.last_trade_date
             \/ /\ last'.op = "check"
                /\ \E i \in MonTradeIds :
                      WasPending(i) /\ last'.results[i] \in {"WIN", "EXPIRED"}
      ]_vars

(***************************************************************************)
(* Properties of the trade life cycle, checked under Spec and SpecLive     *)
(***************************************************************************)
\* a bar of the feed that closed inside the verification window of trade i
\* touched its stop or its target
TouchedInWindow(i) ==
    \E k \in 1..Len(feed) :
        /\ feed[k].t > trades[i].timestamp
        /\ ~is_expired(feed[k].t, trades[i].timestamp)
        /\ \/ sl_hit(feed[k], trades[i].direction, trades[i].stop_loss)
           \/ tp_hit(feed[k], trades[i].direction, trades[i].take_profit)

\* C33: a trade whose stop or target was touched by a bar inside its
\* verification window is never stored as EXPIRED, whenever the verification
\* runs.
C33_TouchedTradeIsNeverExpired ==
    \A i \in 1..Len(trades) :
        TouchedInWindow(i) => trades[i].result # "EXPIRED"

\* C39: every logged trade plan eventually has a stored result, and a
\* stored result never becomes NULL again.
C39_EveryPlanLeavesPending ==
    /\ \A i \in TradeIds :
          (i \in 1..Len(trades)) ~>
              (i \in 1..Len(trades) /\ trades[i].result # NullResult)
    /\ [][\A i \in 1..Len(trades) :
            trades[i].result # NullResult => trades'[i].result # NullResult]_vars

\* a plan no bar ever touched, stored as EXPIRED by the pass that runs after
\* its window
C39_Witness ==
    /\ Len(trades) >= 1
    /\ feed = <<>>
    /\ now = LastEntry + VERIFICATION_WINDOW_BARS + 1
    /\ loopProc = NoLoopProc
    /\ gradeProc = NoGradeProc
    /\ trades[1].result = "EXPIRED"
    /\ trades[1].bars_to_hit = VERIFICATION_WINDOW_BARS

(***************************************************************************)
(* Properties of the interleaved handlers, checked under SpecRace          *)
(***************************************************************************)
\* C32: when /grade and check_pending_trades interleave on the shared store,
\* grade_council and update_level are each called at most once per trade.
C32_LedgersUpdatedAtMostOncePerTrade ==
    \A i \in TradeIds : gradeCalls[i] <= 1 /\ levelCalls[i] <= 1

====
